---- MODULE Spec2Model ----
(***************************************************************************)
(* Model of the iris sender (src/src/iris_api/bin/sender.py): the          *)
(* escalation passes escalate()/deactivate() over the incident and message *)
(* tables, and the aggregation engine fetch_and_prepare_message() /        *)
(* aggregate() / poll() over the in-memory maps.                           *)
(***************************************************************************)
EXTENDS Integers, Naturals, Sequences, FiniteSets, TLC

VARIABLES
    plan,         \* the plan row and its plan_notification rows (cache.plans)
    incident,     \* table `incident`: sequence of rows, id = index
    message,      \* table `message`: sequence of rows, id = index
    clock,        \* wall clock / NOW(), in seconds
    pc,           \* position of the master's main loop inside one tick
    escalations,  \* escalate(): dict incident_id -> step to advance to
    rows,         \* escalate(): <<incident, plan_notification>> of the QUEUE_SQL rows to repeat
    inflight,     \* ids poll() handed to the send pipeline, not yet marked as sent
    tstart,       \* history: clock at which the running tick started
    script,       \* history: ticks of scenario 1 done so far, NULL once the run left it
    windows,      \* key -> set of <<bucket timestamp, count>>
    aggregation,  \* key -> time of last message queued in aggregation mode, NULL if absent
    queues,       \* key -> set of buffered message ids, {} if absent
    sent,         \* key -> time the last batch was sent, NULL if absent
    messages,     \* ids of the buffered message payloads (dict keys)
    message_queue,\* intake queue (poll -> send task)
    send_queue,   \* queue drained by the workers
    fnow,         \* send task: `now` read before blocking on message_queue
    agg,          \* aggregate(): the running call (now, pending keys, query)
    hist,         \* history: every classification [key, now, id, how]
    started,      \* history: ids of the messages a worker has begun to send
    call,         \* one call of a function under check: its inputs and its result
    worker,       \* fetch_and_send_message(): the message dict a worker holds and where it is
    target_contact, \* table `target_contact` of the target: the modes it has a destination for
    templates,    \* cache.templates: what it holds for the template of the message
    sender_slaves \* rpc.num_slaves and rpc.sender_slaves: slaves are configured

escVars == <<plan, incident, message, clock, pc, escalations, rows, inflight, tstart, script>>
aggVars == <<windows, aggregation, queues, sent, messages, message_queue,
             send_queue, fnow, agg, hist, started>>
workerVars == <<worker, target_contact, templates, sender_slaves>>
auxVars == <<call, worker, target_contact, templates, sender_slaves>>
vars == <<plan, incident, message, clock, pc, escalations, rows, inflight, tstart, script,
          windows, aggregation, queues, sent, messages, message_queue,
          send_queue, fnow, agg, hist, started, call, worker,
          target_contact, templates, sender_slaves>>

NULL == -1

\* ---------------------------------------------------------------- bounds
MaxMsgs == 3
MaxTime == 2
MaxRows == 3
MaxClassify == 3
MaxWindow == 3

\* ------------------------------------------------------------ plan data
\* targets a role can expand to, and the plan's creator
RoleTargets == {"user_a", "user_b"}
Creator == "creator"
AllTargets == RoleTargets \cup {Creator}
\* aggregation keys (plan, application, priority, target): one plan, one
\* application and one priority, so a key is a target
Keys == {"user_a"}
TargetOrder == <<"user_a", "user_b", "creator">>

PN(step, repeat, wait) == [step |-> step, repeat |-> repeat, wait |-> wait]

\* a plan whose rate limit never triggers, for the runs about escalation
EscPlan(step_count, pns, grid) ==
    [step_count |-> step_count, pns |-> pns, grid |-> grid, scripted |-> FALSE,
     threshold_count |-> MaxRows, threshold_window |-> 0,
     aggregation_window |-> 0, aggregation_reset |-> 0]

\* a one-step plan with the given aggregation settings
AggPlan(tc, tw, aw, ar, grid, scripted) ==
    [step_count |-> 1, pns |-> <<PN(1, 0, 0)>>, grid |-> grid, scripted |-> scripted,
     threshold_count |-> tc, threshold_window |-> tw,
     aggregation_window |-> aw, aggregation_reset |-> ar]

\* spec.md section 8, scenario 1
Scenario1Plan ==
    EscPlan(2, <<PN(1, 0, 30), PN(2, 1, 10)>>, {0, 20, 35, 46, 57, 80})

\* the tick times of scenario 1
Scenario1Ticks == <<0, 35, 46, 57>>

SmallPlans ==
    { EscPlan(1, <<PN(1, 1, 1)>>, 0..MaxTime),
      EscPlan(2, <<PN(1, 0, 1), PN(2, 1, 0)>>, 0..MaxTime),
      EscPlan(1, <<PN(1, 0, 0), PN(1, 1, 1)>>, 0..MaxTime),
      EscPlan(2, <<PN(1, 0, 0)>>, 0..MaxTime) }

\* a two-step plan whose first step has two notifications, one of them
\* with a repeat that outlasts the other
TwoNotificationPlans ==
    { EscPlan(2, <<PN(1, 0, 0), PN(1, 1, 1), PN(2, 0, 0)>>, 0..MaxTime) }

\* spec.md section 8, scenario 2: threshold_count 3, threshold_window 60,
\* aggregation_window 30, aggregation_reset 120; the process starts at 1000
Scenario2Plan ==
    AggPlan(3, 60, 30, 120, {1000, 1001, 1002, 1003, 1010, 1030, 1033}, TRUE)

\* the classification times of scenario 2
Scenario2Times == <<1000, 1001, 1002, 1003, 1010>>

SmallAggPlans == { AggPlan(1, 0, 1, 0, 1..MaxTime, FALSE) }

\* cache.plans[plan_id]['steps'].get(step, [])
StepsOf(step) == {p \in DOMAIN plan.pns : plan.pns[p].step = step}

\* ---------------------------------------------------------------- helpers
Max(S) == CHOOSE x \in S : \A y \in S : y <= x
Min(S) == CHOOSE x \in S : \A y \in S : x <= y

\* no call is under check, the worker holds no message
NoCall == [fn |-> "none"]

\* aggregate() is not running; `flushed` is history, the values the flushes
\* wrote to sent[key] so far
AggIdle ==
    [state |-> "idle", now |-> 0, keys |-> {}, key |-> "", ids |-> {},
     aliased |-> FALSE, active |-> {}, log |-> <<0, 0>>, flushed |-> <<>>]

IncidentIds == DOMAIN incident
MessageIds == DOMAIN message

\* ids of the message rows of one (incident, plan_notification, target) group
GroupRows(i, p, t) ==
    {m \in MessageIds : /\ message[m].incident_id = i
                        /\ message[m].plan_notification_id = p
                        /\ message[m].target = t}

\* targets with at least one row: the groups of
\* GROUP BY incident.id, message.plan_notification_id, message.target_id
GroupTargets(i, p) == {t \in AllTargets : GroupRows(i, p, t) # {}}

\* count(`message`.`id`) of one inner group
GroupCount(i, p, t) == Cardinality(GroupRows(i, p, t))

\* max(`count`) of the outer GROUP BY incident_id, plan_notification_id
MaxCount(i, p) == Max({GroupCount(i, p, t) : t \in GroupTargets(i, p)})

\* TIMESTAMPDIFF(SECOND, max(`message`.`created`), NOW()) of one inner group
CreatedAge(i, p, t) == clock - Max({message[m].created : m \in GroupRows(i, p, t)})

\* TIMESTAMPDIFF(SECOND, MAX(`message`.`sent`), NOW()); NULL when no row is sent
SentAge(i, p, t) ==
    LET s == {message[m].sent : m \in GroupRows(i, p, t)} \ {NULL}
    IN  IF s = {} THEN NULL ELSE clock - Max(s)

\* ------------------------------------------------------------- QUEUE_SQL
\* one row of the outer query; `age` is a non-aggregated column of the outer
\* GROUP BY, so the server takes it from any one of the inner groups (t)
QueueRow(i, p, t) ==
    [incident_id |-> i, plan_notification_id |-> p,
     count |-> MaxCount(i, p),
     max |-> plan.pns[p].repeat + 1,
     age |-> CreatedAge(i, p, t),
     wait |-> plan.pns[p].wait,
     step |-> plan.pns[p].step,
     current_step |-> incident[i].current_step,
     step_count |-> plan.step_count]

\* mutant: HAVING without `age` > `wait`
QueueHaving_NoWait(n) ==
    \/ n.count < n.max
    \/ /\ n.count = n.max
       /\ n.step = n.current_step
       /\ n.step < n.step_count

\* HAVING `age` > `wait` AND (`count` < `max` OR (`count` = `max` AND
\*        `step` = `current_step` AND `step` < `step_count`))
QueueHaving(n) ==
    /\ n.age > n.wait
    /\ \/ n.count < n.max
       \/ /\ n.count = n.max
          /\ n.step = n.current_step
          /\ n.step < n.step_count

\* the (incident, plan_notification) pairs the inner query groups: rows of
\* `message` joined to an incident with active = 1
QueuePairs ==
    {ip \in IncidentIds \X DOMAIN plan.pns :
        incident[ip[1]].active /\ GroupTargets(ip[1], ip[2]) # {}}

\* the possible results of QUEUE_SQL
QueueResults ==
    {{n \in {QueueRow(ip[1], ip[2], pick[ip]) : ip \in QueuePairs} : QueueHaving(n)} :
        pick \in {f \in [QueuePairs -> AllTargets] :
                    \A ip \in QueuePairs : f[ip] \in GroupTargets(ip[1], ip[2])}}

\* mutant: `<=` for `<`
NeedsRepeat_Le(n) == n.count <= n.max

\* escalate(): `if n['count'] < n['max']` -> repeat, else advance
NeedsRepeat(n) == n.count < n.max

\* ------------------------------------------------------- create_messages
\* What one call can do: return False without a row (no names, and no
\* creator or no 'low' priority), or return True after inserting one row
\* for every resolved name that cache.target_names knows.
CreateOutcomes ==
    {[ret |-> FALSE, targets |-> {}]}
        \cup {[ret |-> TRUE, targets |-> K] : K \in SUBSET RoleTargets}
        \cup {[ret |-> TRUE, targets |-> {Creator}]}

\* INSERT_MESSAGE_SQL for every target of tgts
NewRows(i, p, tgts) ==
    LET order == SelectSeq(TargetOrder, LAMBDA t : t \in tgts)
    IN  [k \in 1..Len(order) |->
            [incident_id |-> i, plan_notification_id |-> p, target |-> order[k],
             created |-> clock, sent |-> NULL, active |-> TRUE]]

\* mutant: the reset to 0 without the test for step 1
StepAfterAdvance_AnyStep(step, step_msg_cnt) ==
    IF step_msg_cnt = 0 THEN 0 ELSE step

\* escalate(): step written by UPDATE_INCIDENT_SQL after the step's messages
StepAfterAdvance(step, step_msg_cnt) ==
    IF step = 1 /\ step_msg_cnt = 0 THEN 0 ELSE step

\* mutant: one more step for every exhausted row of the incident
Escalations_PerRow(new, result) ==
    LET adv == {n \in result : ~NeedsRepeat(n)}
    IN  [i \in new \cup {n.incident_id : n \in adv} |->
            IF \E n \in adv : n.incident_id = i
            THEN (CHOOSE n \in adv : n.incident_id = i).current_step
                    + Cardinality({n \in adv : n.incident_id = i})
            ELSE 1]

\* escalate(): the dict `escalations` after both loops that fill it: 1 for
\* every new incident, then current_step + 1 for every exhausted row
Escalations(new, result) ==
    LET adv == {n \in result : ~NeedsRepeat(n)}
    IN  [i \in new \cup {n.incident_id : n \in adv} |->
            IF \E n \in adv : n.incident_id = i
            THEN (CHOOSE n \in adv : n.incident_id = i).current_step + 1
            ELSE 1]

\* the create_messages calls of one escalate(): <<"repeat", incident, pn>> for
\* every row with count < max, then <<"step", incident, pn>> for every
\* plan_notification of the step an incident of `escalations` moves to
RepeatCalls == {<<"repeat", r[1], r[2]>> : r \in rows}
StepCalls ==
    {<<"step", i, p>> : i \in DOMAIN escalations, p \in DOMAIN plan.pns} \cap
    {c \in {"step"} \X IncidentIds \X DOMAIN plan.pns : c[3] \in StepsOf(escalations[c[2]])}

\* the order in which the calls run (rows first, then the escalations)
CallBefore(c, d) ==
    \/ c[1] = "repeat" /\ d[1] = "step"
    \/ c[1] = d[1] /\ c[2] < d[2]
    \/ c[1] = d[1] /\ c[2] = d[2] /\ c[3] <= d[3]

RECURSIVE CallRows(_, _)
CallRows(calls, oc) ==
    IF calls = {} THEN <<>>
    ELSE LET c == CHOOSE x \in calls : \A y \in calls : CallBefore(x, y)
         IN  NewRows(c[2], c[3], oc[c].targets) \o CallRows(calls \ {c}, oc)

\* ------------------------------------------------------------------ Init
InitEsc(plans) ==
    /\ plan \in plans
    /\ incident = <<>>
    /\ message = <<>>
    /\ clock = Min(plan.grid)
    /\ pc = "idle"
    /\ escalations = <<>>
    /\ rows = {}
    /\ inflight = {}
    /\ tstart = clock
    /\ script = 0

InitAggIdle ==
    /\ windows = [k \in Keys |-> {}]
    /\ aggregation = [k \in Keys |-> NULL]
    /\ queues = [k \in Keys |-> {}]
    /\ sent = [k \in Keys |-> NULL]
    /\ messages = {}
    /\ message_queue = <<>>
    /\ send_queue = <<>>
    /\ fnow = clock
    /\ agg = AggIdle
    /\ hist = <<>>
    /\ started = {}

\* no function is called on its own, the workers wait on the send queue
InitNoCall ==
    /\ call = NoCall
    /\ worker = NoCall
    /\ target_contact = {}
    /\ templates = {}
    /\ sender_slaves = FALSE

Init == InitEsc(SmallPlans) /\ InitAggIdle /\ InitNoCall

InitScenario1 == InitEsc({Scenario1Plan}) /\ InitAggIdle /\ InitNoCall

\* ----------------------------------------------------------- environment
\* time passes
Tick ==
    /\ \E t \in plan.grid : t > clock /\ clock' = t
    /\ UNCHANGED <<plan, incident, message, pc, escalations, rows, inflight, tstart, script>>
    /\ UNCHANGED auxVars
    /\ UNCHANGED aggVars

\* API: Incidents.on_post inserts a row with current_step = 0, active = 1.
\* The model follows one incident: both queries group by incident id and
\* every loop iteration of escalate() handles one incident.
CreateIncident ==
    /\ incident = <<>>
    /\ incident' = Append(incident, [current_step |-> 0, active |-> TRUE, owner |-> FALSE])
    /\ script' = IF plan = Scenario1Plan /\ script = 0 /\ clock = 0 /\ pc = "idle"
                    /\ incident = <<>>
                 THEN 0 ELSE NULL
    /\ UNCHANGED <<plan, message, clock, pc, escalations, rows, inflight, tstart>>
    /\ UNCHANGED auxVars
    /\ UNCHANGED aggVars

\* API: Incident.on_post -> utils.claim_incident(incident_id, owner): the
\* incident gets an owner and active = 0, and its messages get active = 0
ClaimIncident(i) ==
    /\ i \in IncidentIds
    /\ incident[i].active
    /\ incident' = [incident EXCEPT ![i].active = FALSE, ![i].owner = TRUE]
    /\ message' = [m \in MessageIds |->
                      IF message[m].incident_id = i
                      THEN [message[m] EXCEPT !.active = FALSE]
                      ELSE message[m]]
    /\ script' = NULL
    /\ UNCHANGED <<plan, clock, pc, escalations, rows, inflight, tstart>>
    /\ UNCHANGED auxVars
    /\ UNCHANGED aggVars

\* a worker sent a message that poll() had read: mark_message_as_sent
\* (SENT_MESSAGE_SQL has no condition on `active`)
MarkMessageAsSent(m) ==
    /\ m \in inflight
    /\ message' = [message EXCEPT ![m].active = FALSE, ![m].sent = clock]
    /\ inflight' = inflight \ {m}
    /\ script' = IF message[m].created = clock THEN script ELSE NULL
    /\ UNCHANGED <<plan, incident, clock, pc, escalations, rows, tstart>>
    /\ UNCHANGED auxVars
    /\ UNCHANGED aggVars

\* ------------------------------------------------------------ escalate()
\* the two SELECTs of escalate(): NEW_INCIDENTS and QUEUE_SQL. `escalations`
\* and the rows to repeat are fixed here; the inserts and updates follow
\* after the database answered.
EscalateSelect ==
    /\ pc = "idle"
    /\ \E result \in QueueResults :
        /\ escalations' = Escalations({j \in IncidentIds :
                              incident[j].current_step = 0 /\ incident[j].active}, result)
        /\ rows' = {<<n.incident_id, n.plan_notification_id>> :
                        n \in {r \in result : NeedsRepeat(r)}}
    /\ tstart' = clock
    /\ pc' = "escalate"
    /\ script' = IF /\ script # NULL
                    /\ Len(incident) = 1
                    /\ \A m \in MessageIds : message[m].sent = message[m].created
                    /\ \/ script = Len(Scenario1Ticks)
                       \/ /\ script < Len(Scenario1Ticks)
                          /\ clock = Scenario1Ticks[script + 1]
                 THEN script ELSE NULL
    /\ UNCHANGED <<plan, incident, message, clock, inflight>>
    /\ UNCHANGED aggVars

EscalateRead ==
    /\ EscalateSelect
    /\ UNCHANGED auxVars

\* current_step and active of incident i after its entry of `escalations` is
\* handled: UPDATE_INCIDENT_SQL, or INVALIDATE_INCIDENT when the step is empty
AdvanceIncident(i, oc) ==
    LET step == escalations[i]
        steps == StepsOf(step)
        step_msg_cnt == Cardinality({p \in steps : oc[<<"step", i, p>>].ret})
    IN  IF steps # {}
        THEN [incident[i] EXCEPT !.current_step = StepAfterAdvance(step, step_msg_cnt)]
        ELSE [incident[i] EXCEPT !.active = FALSE]

\* the two loops of escalate(): create_messages for every row to repeat, then
\* for every entry of `escalations` the messages of the step and the update
EscalateWriteWith(outcomes) ==
    /\ pc = "escalate"
    /\ \E oc \in [RepeatCalls \cup StepCalls -> outcomes] :
        LET new == CallRows(RepeatCalls \cup StepCalls, oc)
        IN  /\ Len(message) + Len(new) <= MaxMsgs
            /\ message' = message \o new
            /\ script' = IF /\ clock = tstart
                            /\ \A c \in DOMAIN oc :
                                 oc[c].ret /\ \E t \in RoleTargets : oc[c].targets = {t}
                         THEN script ELSE NULL
            /\ incident' = [i \in IncidentIds |->
                               IF i \in DOMAIN escalations
                               THEN AdvanceIncident(i, oc) ELSE incident[i]]
    /\ escalations' = <<>>
    /\ rows' = {}
    /\ pc' = "deactivate"
    /\ UNCHANGED <<plan, clock, inflight, tstart>>
    /\ UNCHANGED auxVars
    /\ UNCHANGED aggVars

EscalateWrite == EscalateWriteWith(CreateOutcomes)

\* ---------------------------------------------------------- deactivate()
\* HAVING `max_count` = `max` AND BIT_AND(`age` > `wait`) = 1 for one group of
\* the outer GROUP BY incident_id, plan_notification_id. BIT_AND skips the
\* NULL ages and is 2^64-1 when every age is NULL.
Exhausted(i, p) ==
    LET ages == {SentAge(i, p, t) : t \in GroupTargets(i, p)} \ {NULL}
    IN  /\ GroupTargets(i, p) # {}
        /\ MaxCount(i, p) = plan.pns[p].repeat + 1
        /\ ages # {}
        /\ \A a \in ages : a > plan.pns[p].wait

\* SELECT distinct incident_id FROM (...) as exhausted_incidents
ExhaustedIncidents ==
    {i \in IncidentIds :
        /\ incident[i].active
        /\ incident[i].current_step = plan.step_count
        /\ \E p \in StepsOf(incident[i].current_step) : Exhausted(i, p)}

\* INACTIVE_SQL
Deactivate ==
    /\ pc = "deactivate"
    /\ incident' = [i \in IncidentIds |->
                       IF i \in ExhaustedIncidents
                       THEN [incident[i] EXCEPT !.active = FALSE]
                       ELSE incident[i]]
    /\ script' = IF script = NULL \/ clock # tstart THEN NULL
                 ELSE IF script < Len(Scenario1Ticks) THEN script + 1 ELSE script
    /\ pc' = "poll"
    /\ UNCHANGED <<plan, message, clock, escalations, rows, inflight, tstart>>
    /\ UNCHANGED auxVars
    /\ UNCHANGED aggVars

\* poll(), as the message table sees it: every row with active = 1 is read
\* (UNSENT_MESSAGES_SQL) and handed to the send task and the workers
PollRows ==
    /\ pc = "poll"
    /\ inflight' = inflight \cup {m \in MessageIds : message[m].active}
    /\ pc' = "idle"
    /\ UNCHANGED <<plan, incident, message, clock, escalations, rows, tstart, script>>
    /\ UNCHANGED auxVars
    /\ UNCHANGED aggVars

Next ==
    \/ Tick
    \/ CreateIncident
    \/ \E i \in IncidentIds : ClaimIncident(i)
    \/ \E m \in inflight : MarkMessageAsSent(m)
    \/ EscalateRead
    \/ EscalateWrite
    \/ Deactivate
    \/ PollRows

Spec == Init /\ [][Next]_vars

\* ------------------------------------------- the tracking notification
\* calls of escalate() the runs about the tracking message go up to
MaxTracking == 3

\* escalate() for a plan that may define a tracking notification: in the
\* loop over the rows of NEW_INCIDENTS, `if tracking_type and tracking_key
\* and app_tracking_template` and `if tracking_type == 'email'` guard
\* spawn(send_message, tracking_message). `call` is the record of the
\* tracking messages spawned so far, by incident id.
EscalateTracking ==
    /\ EscalateSelect
    /\ call.fn = "escalate"
    /\ Len(call.tracking) < MaxTracking
    /\ LET new == {j \in IncidentIds : incident[j].current_step = 0 /\ incident[j].active}
           tracked == IF plan.tracking_type = "email" THEN new ELSE {}
       IN  call' = [call EXCEPT !.tracking = @ \o
                        SelectSeq([j \in 1..Len(incident) |-> j],
                                  LAMBDA j : j \in tracked)]
    /\ UNCHANGED workerVars

\* a plan with tracking_type email, a tracking_key and a tracking_template
\* for the application of the incident, and plans without tracking
\* (tracking_type ""); the first step of the last plan has two
\* notifications that are exhausted together
InitTracking ==
    /\ \E pt \in {<<EscPlan(1, <<PN(1, 1, 1)>>, 0..MaxTime), "email">>,
                   <<EscPlan(2, <<PN(1, 0, 0), PN(2, 0, 0)>>, 0..MaxTime), "">>,
                   <<EscPlan(3, <<PN(1, 0, 0), PN(1, 0, 0), PN(2, 0, 0), PN(3, 0, 0)>>,
                             0..(MaxTime - 1)), "">>} :
            /\ plan = [f \in DOMAIN pt[1] \cup {"tracking_type"} |->
                          IF f = "tracking_type" THEN pt[2] ELSE pt[1][f]]
            /\ clock = Min(pt[1].grid)
    /\ incident = <<>>
    /\ message = <<>>
    /\ pc = "idle"
    /\ escalations = <<>>
    /\ rows = {}
    /\ inflight = {}
    /\ tstart = clock
    /\ script = 0
    /\ InitAggIdle
    /\ call = [fn |-> "escalate", tracking |-> <<>>]
    /\ worker = NoCall
    /\ target_contact = {}
    /\ templates = {}
    /\ sender_slaves = FALSE

NextTracking ==
    \/ Tick
    \/ CreateIncident
    \/ \E i \in IncidentIds : ClaimIncident(i)
    \/ \E m \in inflight : MarkMessageAsSent(m)
    \/ EscalateTracking
    \/ EscalateWrite
    \/ Deactivate
    \/ PollRows

SpecTracking == InitTracking /\ [][NextTracking]_vars

\* ------------------------------------------------- escalate() that fails
\* A statement of escalate() raises a database error: the create_messages
\* calls made so far have committed their rows on their own connection,
\* UPDATE_INCIDENT_SQL is not committed, and main() logs the exception and
\* skips deactivate(), poll() and aggregate() of this pass.
EscalateFail ==
    /\ pc = "escalate"
    /\ \E done \in SUBSET (RepeatCalls \cup StepCalls) :
        /\ \A c \in done : \A d \in RepeatCalls \cup StepCalls :
              CallBefore(d, c) => d \in done
        /\ \E oc \in [done -> CreateOutcomes] :
            LET new == CallRows(done, oc)
            IN  /\ Len(message) + Len(new) <= MaxMsgs
                /\ message' = message \o new
    /\ escalations' = <<>>
    /\ rows' = {}
    /\ pc' = "idle"
    /\ script' = NULL
    /\ UNCHANGED <<plan, incident, clock, inflight, tstart>>
    /\ UNCHANGED auxVars
    /\ UNCHANGED aggVars

NextFail ==
    \/ Next
    \/ EscalateFail

\* a two-step plan, one notification for each step
FailPlans == { EscPlan(2, <<PN(1, 0, 0), PN(2, 0, 0)>>, 0..MaxTime) }

InitFail == InitEsc(FailPlans) /\ InitAggIdle /\ InitNoCall

SpecFail == InitFail /\ [][NextFail]_vars

\* the same sender over the plan with two notifications in its first step
InitTwoNotifications == InitEsc(TwoNotificationPlans) /\ InitAggIdle /\ InitNoCall

SpecTwoNotifications == InitTwoNotifications /\ [][Next]_vars

\* ------------------------------------------------------- the fair sender
\* plans without waits and without repeats: every step is over one second
\* after its message, and every create_messages call is that of a step
LivePlans ==
    { EscPlan(2, <<PN(1, 0, 0), PN(2, 0, 0)>>, 0..MaxTime),
      EscPlan(1, <<PN(1, 0, 0)>>, 0..MaxTime) }

\* every create_messages call returns True; the role resolves to user_a, or
\* to a name cache.target_names does not know
LiveOutcomes ==
    {[ret |-> TRUE, targets |-> {"user_a"}], [ret |-> TRUE, targets |-> {}]}

\* no pass of the main loop has run yet
InitLive ==
    /\ plan \in LivePlans
    /\ incident = <<>>
    /\ message = <<>>
    /\ clock = 0
    /\ pc = "idle"
    /\ escalations = <<>>
    /\ rows = {}
    /\ inflight = {}
    /\ tstart = NULL
    /\ script = NULL
    /\ InitAggIdle
    /\ InitNoCall

\* a second passes: the loop of main() has run a pass in this second and the
\* workers have sent what poll() gave them
TickLive ==
    /\ pc = "idle"
    /\ tstart = clock
    /\ inflight = {}
    /\ clock < MaxTime
    /\ clock' = clock + 1
    /\ UNCHANGED <<plan, incident, message, pc, escalations, rows, inflight, tstart, script>>
    /\ UNCHANGED auxVars
    /\ UNCHANGED aggVars

\* the incident is there before the first pass
NextLive ==
    \/ TickLive
    \/ tstart = NULL /\ CreateIncident
    \/ \E i \in IncidentIds : ClaimIncident(i)
    \/ \E m \in inflight : MarkMessageAsSent(m)
    \/ EscalateRead
    \/ EscalateWriteWith(LiveOutcomes)
    \/ Deactivate
    \/ PollRows

\* main() loops for ever (`while True`), the workers loop for ever, and
\* time.time() advances however often the loop runs within one second
FairLive ==
    /\ SF_vars(TickLive)
    /\ WF_vars(EscalateRead)
    /\ WF_vars(EscalateWriteWith(LiveOutcomes))
    /\ WF_vars(Deactivate)
    /\ WF_vars(PollRows)
    /\ WF_vars(\E m \in inflight : MarkMessageAsSent(m))

SpecLive == InitLive /\ [][NextLive]_vars /\ FairLive

\* the runs over the plan of scenario 1, followed until they leave the scenario
NextScenario1 ==
    \/ script # NULL /\ Tick
    \/ script # NULL /\ CreateIncident
    \/ script # NULL /\ \E i \in IncidentIds : ClaimIncident(i)
    \/ script # NULL /\ \E m \in inflight : MarkMessageAsSent(m)
    \/ script # NULL /\ EscalateRead
    \/ script # NULL /\ EscalateWrite
    \/ script # NULL /\ Deactivate
    \/ script # NULL /\ PollRows

SpecScenario1 == InitScenario1 /\ [][NextScenario1]_vars

\* ====================================================== aggregation engine
\* caps of the runs: the scenario needs five messages, and each queue holds
\* at most two payloads at a time
RowCap == IF plan.scripted THEN Len(Scenario2Times) ELSE MaxRows
QueueCap == Min({RowCap, 2})
ClassifyCap == IF plan.scripted THEN Len(Scenario2Times) ELSE MaxClassify

\* the queue key of a message
KeyOf(id) == message[id].target

RECURSIVE SetToSeq(_)
SetToSeq(S) == IF S = {} THEN <<>> ELSE <<Min(S)>> \o SetToSeq(S \ {Min(S)})

RECURSIVE WindowSum(_)
WindowSum(window) ==
    IF window = {} THEN 0
    ELSE LET b == CHOOSE x \in window : TRUE IN b[2] + WindowSum(window \ {b})

\* `if now - bucket > plan['threshold_window']: del window[bucket]`
BucketExpired_Ge(now, bucket) == now - bucket >= plan.threshold_window
BucketExpired(now, bucket) == now - bucket > plan.threshold_window

\* `window[now] += 1` on the pruned window
WindowAfter(window, now) ==
    LET pruned == {b \in window : ~BucketExpired(now, b[1])}
        old == {b \in pruned : b[1] = now}
        cnt == IF old = {} THEN 0 ELSE (CHOOSE b \in old : TRUE)[2]
    IN  (pruned \ old) \cup {<<now, cnt + 1>>}

\* `if sum(window.itervalues()) > plan['threshold_count']`
OverThreshold_Ge(window) == WindowSum(window) >= plan.threshold_count
OverThreshold(window) == WindowSum(window) > plan.threshold_count

\* `if now - last_aggregation > plan['aggregation_reset']`
ResetElapsed_Ge(now, last_aggregation) == now - last_aggregation >= plan.aggregation_reset
ResetElapsed(now, last_aggregation) == now - last_aggregation > plan.aggregation_reset

\* `if now - sent.get(key, 0) >= aggregation_window`
FlushDue_Gt(now, key) ==
    now - (IF sent[key] = NULL THEN 0 ELSE sent[key]) > plan.aggregation_window
FlushDue(now, key) ==
    now - (IF sent[key] = NULL THEN 0 ELSE sent[key]) >= plan.aggregation_window

\* SELECT id FROM message WHERE active=1 AND id IN ids
ActiveIds_All(ids) == ids
ActiveIds(ids) == {id \in ids : message[id].active}

\* a payload on the send queue
Entry(id, aggregated_ids, batch) ==
    [message_id |-> id, aggregated_ids |-> aggregated_ids, batch_id |-> batch]

InitAgg == InitEsc(SmallAggPlans \cup {Scenario2Plan}) /\ InitAggIdle /\ InitNoCall

\* a pass of main()'s loop starts: runtime = int(time.time()), then
\* escalate() seen from the message table: create_messages() inserted
\* active rows of the active incident, one per target
AggEscalate ==
    /\ pc = "idle"
    /\ tstart' = clock
    /\ \E tgts \in SUBSET Keys :
        /\ tgts # {} => \E i \in IncidentIds : incident[i].active
        /\ Len(message) + Cardinality(tgts) <= RowCap
        /\ message' = message \o NewRows(1, 1, tgts)
    /\ pc' = "poll"
    /\ UNCHANGED <<plan, incident, clock, escalations, rows, inflight, script>>
    /\ UNCHANGED auxVars
    /\ UNCHANGED aggVars

\* UNSENT_MESSAGES_SQL, with ' AND `message`.`id` NOT IN %s' when
\* `messages` is not empty
UnsentMessages_All(excluded) == {m \in MessageIds : message[m].active}
UnsentMessages(excluded) ==
    {m \in MessageIds : message[m].active /\ m \notin excluded}

\* poll(): the active rows whose id is not buffered in `messages`
Poll ==
    /\ pc = "poll"
    /\ LET new == UnsentMessages(messages) IN
        /\ Len(message_queue) + Cardinality(new) <= QueueCap
        /\ message_queue' = message_queue \o SetToSeq(new)
    /\ pc' = "aggregate"
    /\ UNCHANGED <<plan, incident, message, clock, escalations, rows, inflight, tstart, script>>
    /\ UNCHANGED auxVars
    /\ UNCHANGED <<windows, aggregation, queues, sent, messages, send_queue, fnow, agg, hist, started>>

\* fetch_and_prepare_message(): `now` was read before the task blocked on
\* message_queue.get(), so it is the time the previous call returned
FetchAndPrepareMessage ==
    /\ message_queue # <<>>
    /\ Len(hist) < ClassifyCap
    /\ LET message_id == Head(message_queue)
           key == KeyOf(message_id)
           now == fnow
           last_aggregation == aggregation[key]
           truthy == last_aggregation # NULL /\ last_aggregation # 0
           reset == truthy /\ ResetElapsed(now, last_aggregation)
           aggregate == truthy /\ ~ResetElapsed(now, last_aggregation)
           window == WindowAfter(windows[key], now)
           enter == ~aggregate /\ OverThreshold(window)
           flushing == agg.state = "query" /\ agg.key = key
       IN
        /\ message_queue' = Tail(message_queue)
        /\ aggregation' = [aggregation EXCEPT ![key] =
                              IF aggregate \/ enter THEN now
                              ELSE IF reset THEN NULL ELSE @]
        /\ sent' = [sent EXCEPT ![key] =
                       IF enter THEN now ELSE IF reset THEN NULL ELSE @]
        /\ windows' = IF aggregate THEN windows ELSE [windows EXCEPT ![key] = window]
        /\ queues' = [queues EXCEPT ![key] =
                         IF aggregate THEN @ \cup {message_id}
                         ELSE IF enter THEN {message_id} ELSE @]
        /\ messages' = IF aggregate \/ enter THEN messages \cup {message_id} ELSE messages
        /\ IF aggregate \/ enter
           THEN send_queue' = send_queue
           ELSE /\ Len(send_queue) < QueueCap
                /\ send_queue' = Append(send_queue, Entry(message_id, {}, FALSE))
        \* aggregate() holds a reference to the set queues[key] while it waits
        \* for the database
        /\ agg' = IF flushing /\ agg.aliased /\ aggregate
                  THEN [agg EXCEPT !.ids = @ \cup {message_id}]
                  ELSE IF flushing /\ enter THEN [agg EXCEPT !.aliased = FALSE]
                  ELSE agg
        /\ hist' = Append(hist, [key |-> key, now |-> now, id |-> message_id,
                                 how |-> IF aggregate THEN "buffered"
                                         ELSE IF enter THEN "enter" ELSE "sent"])
    /\ fnow' = clock
    /\ UNCHANGED escVars
    /\ UNCHANGED auxVars
    /\ started' = started

\* aggregate(now): the loop over queues.keys() starts
AggregateStart ==
    /\ pc = "aggregate"
    /\ agg.state = "idle"
    /\ agg' = [AggIdle EXCEPT !.state = "loop", !.now = tstart,
                              !.flushed = agg.flushed,
                              !.keys = {k \in Keys : queues[k] # {}}]
    /\ UNCHANGED escVars
    /\ UNCHANGED auxVars
    /\ UNCHANGED <<windows, aggregation, queues, sent, messages, message_queue,
                   send_queue, fnow, hist, started>>

\* aggregate(now): one key of the loop, up to the answer of the SELECT
AggregateKey ==
    /\ agg.state = "loop"
    /\ \E key \in agg.keys :
        agg' = IF FlushDue(agg.now, key)
               THEN [agg EXCEPT !.state = "query", !.key = key, !.keys = @ \ {key},
                                !.ids = queues[key], !.aliased = TRUE,
                                !.active = ActiveIds(queues[key])]
               ELSE [agg EXCEPT !.keys = @ \ {key}]
    /\ UNCHANGED escVars
    /\ UNCHANGED auxVars
    /\ UNCHANGED <<windows, aggregation, queues, sent, messages, message_queue,
                   send_queue, fnow, hist, started>>

\* aggregate(now): the flush of one key after the SELECT answered
AggregateFlush ==
    /\ agg.state = "query"
    /\ LET key == agg.key
           active_message_ids == agg.active
           inactive_message_ids == agg.ids \ active_message_ids
           l == Cardinality(active_message_ids)
       IN
        /\ messages' = (messages \ inactive_message_ids) \ active_message_ids
        /\ IF l = 0 THEN send_queue' = send_queue
           ELSE /\ Len(send_queue) < QueueCap
                /\ \E m \in active_message_ids :
                    send_queue' = Append(send_queue,
                        IF l = 1 THEN Entry(m, {}, FALSE)
                        ELSE Entry(m, active_message_ids, TRUE))
        /\ queues' = [queues EXCEPT ![key] = {}]
        /\ sent' = [sent EXCEPT ![key] = agg.now]
        /\ agg' = [agg EXCEPT !.state = "loop", !.ids = {}, !.active = {},
                              !.aliased = FALSE,
                              !.log = <<Cardinality(inactive_message_ids), l>>,
                              !.flushed = Append(@, agg.now)]
    /\ UNCHANGED escVars
    /\ UNCHANGED auxVars
    /\ UNCHANGED <<windows, aggregation, message_queue, fnow, hist, started>>

\* aggregate(now) returns and the pass of the main loop is over
AggregateDone ==
    /\ pc = "aggregate"
    /\ agg.state = "loop"
    /\ agg.keys = {}
    /\ agg' = [AggIdle EXCEPT !.log = agg.log, !.flushed = agg.flushed]
    /\ pc' = "idle"
    /\ UNCHANGED <<plan, incident, message, clock, escalations, rows, inflight, tstart, script>>
    /\ UNCHANGED auxVars
    /\ UNCHANGED <<windows, aggregation, queues, sent, messages, message_queue,
                   send_queue, fnow, hist, started>>

\* fetch_and_send_message(): a worker takes a payload from the send queue;
\* when the send succeeds, mark_message_as_sent() updates the row, or all
\* the rows of the batch
FetchAndSendMessage ==
    /\ send_queue # <<>>
    /\ send_queue' = Tail(send_queue)
    /\ LET m == Head(send_queue)
           ids == IF m.batch_id THEN m.aggregated_ids ELSE {m.message_id}
       IN /\ started' = started \cup ids
          /\ \E success \in BOOLEAN :
               message' = IF success
                          THEN [x \in MessageIds |->
                                      IF x \in ids
                                      THEN [message[x] EXCEPT !.active = FALSE, !.sent = clock]
                                      ELSE message[x]]
                          ELSE message
    /\ UNCHANGED <<plan, incident, clock, pc, escalations, rows, inflight, tstart, script>>
    /\ UNCHANGED auxVars
    /\ UNCHANGED <<windows, aggregation, queues, sent, messages, message_queue,
                   fnow, agg, hist>>

\* scenario 2 so far: the k-th classification is of a new message of user_a
\* at the k-th time of the scenario, every message was polled once and
\* nobody claimed the incident
OnScenario2 ==
    /\ \A i \in IncidentIds : incident[i].active
    /\ \A m \in MessageIds : message[m].target = "user_a"
    /\ Len(hist) <= Len(Scenario2Times)
    /\ \A k \in DOMAIN hist : hist[k].now = Scenario2Times[k]
    /\ Len(hist) < Len(Scenario2Times) => fnow = Scenario2Times[Len(hist) + 1]
    /\ LET polled == [k \in DOMAIN hist |-> hist[k].id] \o message_queue
       IN  \A j, k \in DOMAIN polled : polled[j] = polled[k] => j = k

\* the runs over the plan of scenario 2 are followed while they are on it
Followed == plan.scripted => OnScenario2

NextAgg ==
    \/ Followed /\ Tick
    \/ Followed /\ CreateIncident
    \/ Followed /\ \E i \in IncidentIds : ClaimIncident(i)
    \/ Followed /\ AggEscalate
    \/ Followed /\ Poll
    \/ Followed /\ FetchAndPrepareMessage
    \/ Followed /\ AggregateStart
    \/ Followed /\ AggregateKey
    \/ Followed /\ AggregateFlush
    \/ Followed /\ AggregateDone
    \/ Followed /\ FetchAndSendMessage

SpecAgg == InitAgg /\ [][NextAgg]_vars

\* main(): `sleep(nap_time)` with nap_time = max(0, interval - elapsed_time)
\* and runtime = int(time.time()): a pass starts later than the one before
TimedPass_Any == TRUE
TimedPass == clock > tstart

\* plans that aggregate from the second message on and stay in aggregation
\* mode for messages one second apart; the second one flushes in every pass;
\* the third one has a threshold_window longer than its aggregation_reset,
\* so a key that leaves aggregation mode can enter it again at once
TimedPlans ==
    { AggPlan(1, 1, 1, 1, 1..(MaxTime + 2), FALSE),
      AggPlan(1, 1, 0, 1, 1..(MaxTime + 2), FALSE),
      AggPlan(1, 2, 1, 0, 1..(MaxTime + 2), FALSE) }

InitTimed == InitEsc(TimedPlans) /\ InitAggIdle /\ InitNoCall

NextTimed ==
    \/ Tick
    \/ CreateIncident
    \/ \E i \in IncidentIds : ClaimIncident(i)
    \/ TimedPass /\ AggEscalate
    \/ Poll
    \/ FetchAndPrepareMessage
    \/ AggregateStart
    \/ AggregateKey
    \/ AggregateFlush
    \/ AggregateDone
    \/ FetchAndSendMessage

SpecTimed == InitTimed /\ [][NextTimed]_vars

\* ------------------------------------------------- the fair aggregation
\* a plan that flushes in every pass (aggregation_window 0) and whose
\* threshold_window is longer than its aggregation_reset
InitAggLive ==
    /\ InitEsc({AggPlan(1, 2, 0, 0, 1..MaxTime, FALSE)})
    /\ InitAggIdle
    /\ InitNoCall

\* main() runs a pass every 60 seconds and no pass blocks: the queues of the
\* code are unbounded and every query returns, so passes keep ending; the
\* send task and the workers run whenever their queue holds something
FairAgg ==
    /\ []<><<AggregateDone>>_vars
    /\ WF_vars(AggregateStart)
    /\ WF_vars(AggregateKey)
    /\ WF_vars(AggregateFlush)
    /\ WF_vars(FetchAndPrepareMessage)
    /\ WF_vars(FetchAndSendMessage)

SpecAggLive == InitAggLive /\ [][NextAgg]_vars /\ FairAgg

\* ============================================== create_messages, alone
\* `name = None`: the plan has no creator
NoName == ""

\* the body create_messages() gives the message of the plan's creator
CreatorNotice == "You are receiving this as you created this plan"

\* create_messages(incident_id, plan_notification_id) over what the caches
\* answer: names = cache.targets_for_role(role, target), creator =
\* cache.plans[plan_id]['creator'] (NoName when the lookup fails or is empty),
\* low = 'low' is a key of api_cache.priorities, known = the names for which
\* cache.target_names[name] is truthy. The result: the value returned, the
\* rows of INSERT_MESSAGE_SQL and the auditlog.message_change entries.
CreateMessages(names, creator, low, known) ==
    LET fallback == names = {}
        failed == fallback /\ (creator = NoName \/ ~low)
        to == IF fallback THEN {creator} ELSE names
        changed_target == fallback
        inserted == SelectSeq(TargetOrder, LAMBDA t : t \in to \cap known)
    IN  IF failed
        THEN [ret |-> FALSE, rows |-> <<>>, audit |-> <<>>]
        ELSE [ret |-> TRUE,
              rows |-> [k \in 1..Len(inserted) |->
                          [target |-> inserted[k],
                           priority |-> IF fallback THEN "low" ELSE "plan_notification",
                           body |-> IF fallback THEN <<CreatorNotice>> ELSE <<>>]],
              audit |-> IF changed_target
                        THEN [k \in 1..Len(inserted) |->
                                 [change_type |-> "TARGET_CHANGE", new |-> inserted[k]]]
                        ELSE <<>>]

\* the calls: every answer of the caches
CreateCalls ==
    [fn : {"create_messages"}, state : {"called"},
     names : SUBSET RoleTargets, creator : {NoName, Creator}, low : BOOLEAN,
     known : SUBSET AllTargets]

InitCreate ==
    /\ InitEsc({Scenario1Plan})
    /\ InitAggIdle
    /\ worker = NoCall
    /\ target_contact = {}
    /\ templates = {}
    /\ sender_slaves = FALSE
    /\ call \in CreateCalls

\* the call runs and returns
CreateMessagesCall ==
    /\ call.fn = "create_messages"
    /\ call.state = "called"
    /\ call' = [fn |-> "create_messages", state |-> "returned",
                names |-> call.names, creator |-> call.creator, low |-> call.low,
                known |-> call.known,
                result |-> CreateMessages(call.names, call.creator, call.low, call.known)]
    /\ UNCHANGED workerVars
    /\ UNCHANGED escVars
    /\ UNCHANGED aggVars

NextCreate == CreateMessagesCall

SpecCreate == InitCreate /\ [][NextCreate]_vars

\* ===================================== AuthMiddleware.process_resource
\* `window = int(time.time()) // 5`
WindowOf(now) == now \div 5

\* '%s %s %s %s' % (window, method, path, body): the words of the text, in
\* order; path and body are sequences of words
Text(window, method, path, body) == <<window, method>> \o path \o body

\* base64.urlsafe_b64encode(hmac.new(api_key, text, hashlib.sha512).digest()):
\* two digests are equal when key and text are
Digest(api_key, text) == <<api_key, text>>

\* mutant: the digest of window - 2 passes as well
AcceptedWindows_Three(window) == {window, window - 1, window - 2}

\* the digest is compared with that of `window`, then of `window - 1`
AcceptedWindows(window) == {window, window - 1}

ApiKey == "key"
Bodies == {<<"a">>, <<"a", "b">>}

\* process_resource(req, resp, resource, params) for a request with the
\* header `hmac app:client_digest` of a known application
ProcessResource(req, now) ==
    IF req.allow_read_only /\ req.method = "GET"
    THEN "passed"
    ELSE IF \E w \in AcceptedWindows(WindowOf(now)) :
                req.client_digest = Digest(ApiKey, Text(w, req.method, req.path, req.body))
         THEN "authenticated"
         ELSE "HTTPUnauthorized"

\* the requests: the client signed (window, method, path, body) with its
\* key and sends method, path and body, the body perhaps not the signed one
AuthCalls ==
    { [fn |-> "process_resource", state |-> "called",
       signed |-> w, signed_body |-> sb, client_key |-> k,
       req |-> [allow_read_only |-> ro, method |-> m, path |-> <<"/v0/incidents">>,
                body |-> b,
                client_digest |-> Digest(k, Text(w, m, <<"/v0/incidents">>, sb))],
       now |-> t] :
        w \in 0..MaxWindow, sb \in Bodies, b \in Bodies, k \in {ApiKey, "other"},
        ro \in BOOLEAN, m \in {"GET", "POST"}, t \in 0..(5 * MaxWindow + 4) }

InitAuth ==
    /\ InitEsc({Scenario1Plan})
    /\ InitAggIdle
    /\ worker = NoCall
    /\ target_contact = {}
    /\ templates = {}
    /\ sender_slaves = FALSE
    /\ call \in AuthCalls

\* the middleware handles the request at server time `now`
ProcessResourceCall ==
    /\ call.fn = "process_resource"
    /\ call.state = "called"
    /\ call' = [fn |-> "process_resource", state |-> "returned",
                signed |-> call.signed, signed_body |-> call.signed_body,
                client_key |-> call.client_key, req |-> call.req, now |-> call.now,
                result |-> ProcessResource(call.req, call.now)]
    /\ UNCHANGED workerVars
    /\ UNCHANGED escVars
    /\ UNCHANGED aggVars

NextAuth == ProcessResourceCall

SpecAuth == InitAuth /\ [][NextAuth]_vars

\* ============================================================ dispatcher
\* Python's None, and a key the dict does not have
None == "None"
Absent == "absent"

Modes == {"sms", "email"}
ModeId == [sms |-> 1, email |-> 2]

\* `target_fallback_mode = 'email'`
target_fallback_mode == "email"

\* table `priority`: the default mode of the priority (the target has no
\* setting of its own in target_mode or target_application_mode)
PriorityMode == [urgent |-> "sms", low |-> "email"]

\* `target_contact`.`destination` of the target for a mode
Destination(target, mode) ==
    IF mode = "sms" THEN "+1 555 0100 of " \o target ELSE target \o "@example.org"

TemplateName == "template"
TemplateId == 7

\* outcomes of mode_template['subject'].render(**context) and of the body:
\* it returns, or raises an exception whose text str(e) is plain or holds
\* a '%' (the text of the template or of the context is part of it)
Renders == {"ok", "raises", "raises_percent"}

\* cache.templates for the template of the message: the names, the
\* applications of the template, the modes of the application's entry and
\* what rendering its subject and its body does
TemplateCaches ==
    [names : {{}, {TemplateName}}, applications : {{"app"}}, modes : {Modes},
     subject : {"ok"}, body : {"ok"}]
    \cup [names : {{TemplateName}}, applications : {{}, {"app"}},
          modes : {{}, {"email"}, Modes}, subject : {"ok"}, body : {"ok"}]
    \cup [names : {{TemplateName}}, applications : {{"app"}}, modes : {Modes},
          subject : Renders, body : Renders]

\* the row of the message poll() read: INSERT_MESSAGE_SQL leaves
\* destination, mode_id, template_id, subject and sent NULL
SendRow ==
    [incident_id |-> 1, plan_notification_id |-> 1, target |-> "user_a",
     created |-> 0, sent |-> NULL, active |-> TRUE,
     destination |-> None, mode_id |-> NULL, template_id |-> NULL,
     subject |-> None, body |-> <<>>]

\* the dicts on the send queue: a row of UNSENT_MESSAGES_SQL (no 'mode'
\* key, a priority), or an out-of-band notification the API sent over RPC
\* (mode and mode_id set, no message_id, its content set)
Payloads ==
    [message_id : {1}, target : {"user_a"}, application : {"app"},
     priority : {"urgent", "low"}, template : {None, TemplateName},
     mode : {Absent}, mode_id : {NULL}, destination : {None},
     subject : {None}, body : {<<>>}, template_id : {NULL}]
    \cup
    {[message_id |-> NULL, target |-> "user_a", application |-> "app",
      priority |-> "urgent", template |-> t,
      mode |-> m, mode_id |-> ModeId[m], destination |-> None,
      subject |-> "subject", body |-> <<"body">>, template_id |-> NULL] :
        t \in {None, TemplateName}, m \in Modes}

WithContact(m, mode) ==
    [m EXCEPT !.destination = Destination(m.target, mode), !.mode = mode,
              !.mode_id = ModeId[mode]]

\* set_target_fallback_mode(message): `[(destination, mode, mode_id)] =
\* cursor` raises ValueError when the target has no contact for email
SetTargetFallbackMode(m) ==
    IF target_fallback_mode \in target_contact
    THEN [ret |-> "True", message |-> WithContact(m, target_fallback_mode)]
    ELSE [ret |-> "False",
          message |-> [m EXCEPT !.destination = None, !.mode = None, !.mode_id = NULL]]

\* the mode_id of the IFNULL chain of set_target_contact_by_priority: the
\* row of target_application_mode for (target, application, priority), else
\* the row of target_mode for (target, priority), else priority.mode_id;
\* None when the target has no such row
ModeOfPriority_UserFirst(application_mode, target_mode, priority) ==
    IF target_mode # None THEN target_mode
    ELSE IF application_mode # None THEN application_mode
    ELSE PriorityMode[priority]
ModeOfPriority(application_mode, target_mode, priority) ==
    IF application_mode # None THEN application_mode
    ELSE IF target_mode # None THEN target_mode
    ELSE PriorityMode[priority]

\* set_target_contact_by_priority(message): the contact of the target for
\* that mode; `[(destination, mode, mode_id)] = cursor` raises ValueError
\* when the target has none
SetTargetContactByPriority(m, application_mode, target_mode, contacts) ==
    LET mode == ModeOfPriority(application_mode, target_mode, m.priority) IN
    IF mode \in contacts
    THEN [raised |-> FALSE, message |-> WithContact(m, mode)]
    ELSE [raised |-> TRUE, message |-> m]

\* set_target_contact(message). Out of band: `cursor.fetchone()[0]` is
\* None[0] when no row matches, a TypeError, which `except ValueError` does
\* not catch. By priority: the unpacking of an empty cursor raises
\* ValueError, and the fallback mode is tried. The target of the
\* dispatcher runs has no row in target_application_mode and target_mode,
\* and no rule of target_reprioritization matches it.
SetTargetContact(m) ==
    IF m.mode # Absent
    THEN IF m.mode \in target_contact
         THEN [ret |-> "True",
               message |-> [m EXCEPT !.destination = Destination(m.target, m.mode)]]
         ELSE [ret |-> "TypeError", message |-> m]
    ELSE LET r == SetTargetContactByPriority(m, None, None, target_contact) IN
         IF ~r.raised
         THEN [ret |-> "True", message |-> r.message]
         ELSE SetTargetFallbackMode(m)

\* set_target_contact_by_priority alone: a row of UNSENT_MESSAGES_SQL, the
\* settings of the target for the application and the priority of the
\* message, and the modes the target has a contact for
ContactCalls ==
    [fn : {"set_target_contact_by_priority"}, state : {"called"},
     message : {p \in Payloads : p.mode = Absent /\ p.template = None},
     application_mode : Modes \cup {None}, target_mode : Modes \cup {None},
     contacts : SUBSET Modes]

InitContact ==
    /\ InitEsc({Scenario1Plan})
    /\ InitAggIdle
    /\ worker = NoCall
    /\ target_contact = {}
    /\ templates = {}
    /\ sender_slaves = FALSE
    /\ call \in ContactCalls

\* the call runs: it returns or raises
SetTargetContactByPriorityCall ==
    /\ call.fn = "set_target_contact_by_priority"
    /\ call.state = "called"
    /\ call' = [fn |-> call.fn, state |-> "returned", message |-> call.message,
                application_mode |-> call.application_mode,
                target_mode |-> call.target_mode, contacts |-> call.contacts,
                result |-> SetTargetContactByPriority(call.message,
                               call.application_mode, call.target_mode, call.contacts)]
    /\ UNCHANGED workerVars
    /\ UNCHANGED escVars
    /\ UNCHANGED aggVars

NextContact == SetTargetContactByPriorityCall

SpecContact == InitContact /\ [][NextContact]_vars

\* the error render() ends with; "" when it has none. The body is rendered
\* after the subject and its error replaces that of the subject.
RenderError(m) ==
    IF m.template \notin templates.names THEN "template does not exist"
    ELSE IF m.application \notin templates.applications THEN "no application"
    ELSE IF m.mode \notin templates.modes THEN "no mode"
    ELSE IF templates.body # "ok" THEN templates.body
    ELSE IF templates.subject # "ok" THEN templates.subject
    ELSE ""

\* render(message) for a message without 'aggregated_ids'. A body is the
\* sequence of the texts it was put together from; the text
\* mode_template['body'].render(**context) returns is named by the mode of
\* the template, and `message['body'] += ...` appends it. With an error
\* the subject is set first, then `error % message` formats the body: a
\* '%' of the exception's text in `error` is read as a conversion and
\* raises (ValueError or TypeError) out of render().
Render(m) ==
    IF m.template = None
    THEN [raised |-> FALSE,
          message |-> IF m.message_id # NULL
                      THEN [m EXCEPT !.subject = message[m.message_id].subject,
                                     !.body = message[m.message_id].body]
                      ELSE m]
    ELSE LET error == RenderError(m) IN
         IF error = ""
         THEN [raised |-> FALSE,
               message |-> [m EXCEPT !.subject = "rendered",
                                     !.body = m.body \o <<m.mode>>,
                                     !.template_id = TemplateId]]
         ELSE IF error = "raises_percent"
         THEN [raised |-> TRUE,
               message |-> [m EXCEPT !.subject = "Iris failed to render your message",
                                     !.body = IF templates.body = "ok"
                                              THEN m.body \o <<m.mode>>
                                              ELSE m.body]]
         ELSE [raised |-> FALSE,
               message |-> [m EXCEPT !.subject = "Iris failed to render your message",
                                     !.body = <<"Failed rendering message.">>,
                                     !.template_id = NULL]]

\* ------------------------------------------------- the loop of main()
\* worker greenlets of the runs of main() (the code spawns 100)
MaxWorkers == 3

\* `escalate(); deactivate(); poll(); aggregate(runtime)` inside one try:
\* what main() does after a pass returned
NextPass_PollFirst(pass) ==
    CASE pass = "escalate" -> "poll"
      [] pass = "poll" -> "deactivate"
      [] pass = "deactivate" -> "aggregate"
      [] OTHER -> "respawn"
NextPass(pass) ==
    CASE pass = "escalate" -> "deactivate"
      [] pass = "deactivate" -> "poll"
      [] pass = "poll" -> "aggregate"
      [] OTHER -> "respawn"

\* `if not bool(send_task): send_task = spawn(send)` and the same for every
\* worker task
Respawn_Workers(tasks) == [t \in DOMAIN tasks |-> IF t = 0 THEN tasks[t] ELSE TRUE]
Respawn(tasks) == [t \in DOMAIN tasks |-> TRUE]

\* main() after `sender bootstrapped`: task 0 is the send task, the others
\* are the workers, all spawned; `ran` is history, the passes the running
\* iteration has started
InitMain ==
    /\ InitEsc({Scenario1Plan})
    /\ InitAggIdle
    /\ worker = NoCall
    /\ target_contact = {}
    /\ templates = {}
    /\ sender_slaves = FALSE
    /\ call = [fn |-> "main", at |-> "sleep", tasks |-> [t \in 0..MaxWorkers |-> TRUE],
               ran |-> <<>>]

\* `while True: runtime = int(time.time())`, and the first pass starts
MainWake ==
    /\ call.at = "sleep"
    /\ call' = [call EXCEPT !.at = "escalate", !.ran = <<"escalate">>]
    /\ UNCHANGED workerVars
    /\ UNCHANGED escVars
    /\ UNCHANGED aggVars

\* the running pass returns and the next one starts, or it raises and
\* `except Exception` ends the try block
MainPass ==
    /\ call.at \in {"escalate", "deactivate", "poll", "aggregate"}
    /\ \E raised \in BOOLEAN :
        call' = IF raised \/ NextPass(call.at) = "respawn"
                THEN [call EXCEPT !.at = "respawn"]
                ELSE [call EXCEPT !.at = NextPass(call.at),
                                  !.ran = Append(@, NextPass(call.at))]
    /\ UNCHANGED workerVars
    /\ UNCHANGED escVars
    /\ UNCHANGED aggVars

\* the send task or a worker ends with an exception nobody caught, while
\* main() waits in a pass or sleeps
TaskDies ==
    /\ call.at # "respawn"
    /\ \E t \in DOMAIN call.tasks :
        /\ call.tasks[t]
        /\ call' = [call EXCEPT !.tasks[t] = FALSE]
    /\ UNCHANGED workerVars
    /\ UNCHANGED escVars
    /\ UNCHANGED aggVars

\* the check of the background greenlets, then sleep(nap_time)
MainRespawn ==
    /\ call.at = "respawn"
    /\ call' = [call EXCEPT !.at = "sleep", !.tasks = Respawn(@)]
    /\ UNCHANGED workerVars
    /\ UNCHANGED escVars
    /\ UNCHANGED aggVars

NextMain ==
    \/ MainWake
    \/ MainPass
    \/ TaskDies
    \/ MainRespawn

SpecMain == InitMain /\ [][NextMain]_vars

\* ------------------------------------------ distributed_send_message
\* configured slave addresses of the runs of distributed_send_message alone
MaxSlaves == 3

\* `if i >= rpc.num_slaves: ... break`, i counted from 0
SlaveBreak_Gt(i, num_slaves) == i > num_slaves
SlaveBreak(i, num_slaves) == i >= num_slaves

\* the loop over enumerate(rpc.sender_slaves) from the i-th address on
\* (i counted from 1 here): replies[i] is what
\* rpc.send_message_to_slave(message, address) returns for it. The result
\* is the number of slaves tried and whether one of them accepted.
RECURSIVE SlaveLoop(_, _, _)
SlaveLoop(i, num_slaves, replies) ==
    IF i > Len(replies) \/ SlaveBreak(i - 1, num_slaves)
    THEN [attempts |-> i - 1, accepted |-> FALSE]
    ELSE IF replies[i] THEN [attempts |-> i, accepted |-> TRUE]
    ELSE SlaveLoop(i + 1, num_slaves, replies)

\* distributed_send_message(message): runtime is what send_message(message)
\* returns, a latency or None, or "raises"; add_stat(message['mode'],
\* runtime) raises for a mode that is None
DistributedSendMessage(num_slaves, replies, runtime, mode) ==
    LET slaves == IF num_slaves # 0 /\ replies # <<>>
                  THEN SlaveLoop(1, num_slaves, replies)
                  ELSE [attempts |-> 0, accepted |-> FALSE]
    IN  IF slaves.accepted
        THEN [ret |-> "True", attempts |-> slaves.attempts, local |-> 0]
        ELSE [ret |-> IF runtime = "raises" \/ runtime = None \/ mode = None
                      THEN "raise" ELSE "True",
              attempts |-> slaves.attempts, local |-> 1]

DistributeCalls ==
    [fn : {"distributed_send_message"}, state : {"called"},
     num_slaves : 0..(MaxSlaves - 1),
     replies : UNION {[1..n -> BOOLEAN] : n \in 0..MaxSlaves},
     runtime : {None, "latency", "raises"}, mode : Modes \cup {None}]

\* the call runs: it returns or raises
DistributedSendMessageCall ==
    /\ call.fn = "distributed_send_message"
    /\ call.state = "called"
    /\ call' = [fn |-> call.fn, state |-> "returned",
                num_slaves |-> call.num_slaves, replies |-> call.replies,
                runtime |-> call.runtime, mode |-> call.mode,
                result |-> DistributedSendMessage(call.num_slaves, call.replies,
                                                  call.runtime, call.mode)]
    /\ UNCHANGED workerVars
    /\ UNCHANGED escVars
    /\ UNCHANGED aggVars

\* `if len(message['subject']) > 255`
SubjectMax == 255

\* mark_message_as_sent(message), the subject: a subject is given by its
\* length, NULL for None. `params` is built from message['subject'] first;
\* then message['subject'] is made '' when it is None or empty and cut to
\* its first 255 characters; cursor.execute(sql, params) writes `params`.
MarkMessageAsSentSubject(subject) ==
    LET blank == IF subject = NULL \/ subject = 0 THEN 0 ELSE subject
        cut   == IF blank > SubjectMax THEN SubjectMax ELSE blank
    IN  [params |-> subject, message |-> cut]

MarkCalls ==
    [fn : {"mark_message_as_sent"}, state : {"called"},
     subject : {NULL, 0, 1, SubjectMax - 1, SubjectMax, SubjectMax + 1,
                SubjectMax + 2}]

\* the call runs: the UPDATE is executed with params and committed
MarkMessageAsSentCall ==
    /\ call.fn = "mark_message_as_sent"
    /\ call.state = "called"
    /\ call' = [fn |-> call.fn, state |-> "returned", subject |-> call.subject,
                result |-> MarkMessageAsSentSubject(call.subject)]
    /\ UNCHANGED workerVars
    /\ UNCHANGED escVars
    /\ UNCHANGED aggVars

\* functions of the dispatcher called on their own
CallInputs == DistributeCalls \cup MarkCalls

InitCalls ==
    /\ InitEsc({Scenario1Plan})
    /\ InitAggIdle
    /\ worker = NoCall
    /\ target_contact = {}
    /\ templates = {}
    /\ sender_slaves = FALSE
    /\ call \in CallInputs

NextCalls ==
    \/ DistributedSendMessageCall
    \/ MarkMessageAsSentCall

SpecCalls == InitCalls /\ [][NextCalls]_vars

\* distributed_send_message(message): a slave answers OK; or the local
\* send_message() returns a runtime; or it raises. With mode None the
\* local path always raises: add_stat(None, runtime) is None + '_cnt'.
SendOutcomes(m) ==
    (IF sender_slaves THEN {"slave"} ELSE {})
        \cup (IF m.mode \in Modes THEN {"local", "raise"} ELSE {"raise"})

InitSend ==
    /\ InitEsc({Scenario1Plan})
    /\ InitAggIdle
    /\ call = NoCall
    /\ worker = NoCall
    /\ target_contact \in SUBSET Modes
    /\ templates \in TemplateCaches
    /\ sender_slaves \in BOOLEAN

\* the API or poll() puts a message on the send queue: a new row of an
\* active incident, or a notification without a row
SendQueuePut ==
    /\ worker = NoCall
    /\ send_queue = <<>>
    /\ message = <<>>
    /\ \E m \in Payloads :
        /\ send_queue' = <<m>>
        /\ IF m.message_id # NULL
           THEN /\ incident' = <<[current_step |-> 1, active |-> TRUE, owner |-> FALSE]>>
                /\ message' = <<SendRow>>
           ELSE UNCHANGED <<incident, message>>
    /\ UNCHANGED <<plan, clock, pc, escalations, rows, inflight, tstart, script>>
    /\ UNCHANGED <<windows, aggregation, queues, sent, messages, message_queue,
                   fnow, agg, hist, started>>
    /\ UNCHANGED <<call, worker, target_contact, templates, sender_slaves>>

\* `if message['mode'] == 'email': ... else:` the failed send is retried
Retries_Always(mode) == TRUE
Retries(mode) == mode # "email"

\* `stats['task_failure'] += 1` and the end of fetch_and_send_message()
\* with `success` None
Failed_Uncounted(w) == [w EXCEPT !.at = "returned"]
Failed(w) == [w EXCEPT !.at = "returned", !.task_failure = @ + 1]

\* fetch_and_send_message(): message = send_queue.get(). The worker keeps
\* the message and, as history of the call, the calls of
\* distributed_send_message() and the last outcome, its increments of
\* stats['task_failure'] and its MODE_CHANGE entries of the audit log
WorkerGet ==
    /\ worker = NoCall
    /\ send_queue # <<>>
    /\ send_queue' = Tail(send_queue)
    /\ worker' = [fn |-> "fetch_and_send_message", at |-> "set_target_contact",
                  message |-> Head(send_queue), sends |-> 0, outcome |-> "none",
                  task_failure |-> 0, audit |-> <<>>]
    /\ UNCHANGED escVars
    /\ UNCHANGED <<windows, aggregation, queues, sent, messages, message_queue,
                   fnow, agg, hist, started>>
    /\ UNCHANGED <<call, target_contact, templates, sender_slaves>>

\* has_contact = set_target_contact(message); without a contact
\* mark_message_has_no_contact(message) and return; an exception that is
\* not caught ends the greenlet of worker()
WorkerSetTargetContact ==
    /\ worker # NoCall
    /\ worker.at = "set_target_contact"
    /\ LET r == SetTargetContact(worker.message) IN
        /\ worker' = [worker EXCEPT !.message = r.message,
                         !.at = IF r.ret = "True" THEN "render"
                                ELSE IF r.ret = "False" THEN "returned" ELSE "dead",
                         !.audit = IF r.ret = "False" /\ worker.message.message_id # NULL
                                   THEN Append(@, <<target_fallback_mode, "invalid">>)
                                   ELSE @]
        /\ message' = IF r.ret = "False" /\ worker.message.message_id # NULL
                      THEN [message EXCEPT ![worker.message.message_id].active = FALSE]
                      ELSE message
    /\ UNCHANGED <<plan, incident, clock, pc, escalations, rows, inflight, tstart, script>>
    /\ UNCHANGED aggVars
    /\ UNCHANGED <<call, target_contact, templates, sender_slaves>>

\* render(message), the first one
WorkerRender ==
    /\ worker # NoCall
    /\ worker.at = "render"
    /\ LET r == Render(worker.message) IN
        worker' = [worker EXCEPT !.message = r.message,
                                 !.at = IF r.raised THEN "dead" ELSE "send"]
    /\ UNCHANGED escVars
    /\ UNCHANGED aggVars
    /\ UNCHANGED <<call, target_contact, templates, sender_slaves>>

\* the first distributed_send_message(message); when it raises and the
\* mode is email the worker gives up
WorkerSend ==
    /\ worker # NoCall
    /\ worker.at = "send"
    /\ \E o \in SendOutcomes(worker.message) :
        LET w == [worker EXCEPT !.sends = 1, !.outcome = o] IN
        worker' = IF o # "raise" THEN [w EXCEPT !.at = "mark"]
                  ELSE IF ~Retries(worker.message.mode) THEN Failed(w)
                  ELSE [w EXCEPT !.at = "fallback"]
    /\ UNCHANGED escVars
    /\ UNCHANGED aggVars
    /\ UNCHANGED <<call, target_contact, templates, sender_slaves>>

\* the handler of the failed send: set_target_fallback_mode(message) and,
\* when it is True, update_message_mode(message); render(message) again and
\* the second distributed_send_message(message)
WorkerFallback ==
    /\ worker # NoCall
    /\ worker.at = "fallback"
    /\ LET f == SetTargetFallbackMode(worker.message)
           r == Render(f.message)
           id == worker.message.message_id
       IN
        /\ message' = IF f.ret = "True" /\ id # NULL
                      THEN [message EXCEPT ![id].mode_id = f.message.mode_id]
                      ELSE message
        /\ LET a == [worker EXCEPT !.message = r.message,
                         !.audit = IF f.ret = "True"
                                   THEN Append(@, <<worker.message.mode, f.message.mode>>)
                                   ELSE @]
           IN
            IF r.raised
            THEN worker' = [a EXCEPT !.at = "dead"]
            ELSE \E o \in SendOutcomes(r.message) :
                    LET w == [a EXCEPT !.sends = 2, !.outcome = o] IN
                    worker' = IF o # "raise" THEN [w EXCEPT !.at = "mark"] ELSE Failed(w)
    /\ UNCHANGED <<plan, incident, clock, pc, escalations, rows, inflight, tstart, script>>
    /\ UNCHANGED aggVars
    /\ UNCHANGED <<call, target_contact, templates, sender_slaves>>

\* `if success: if message['message_id']: mark_message_as_sent(message)`
\* (SENT_MESSAGE_SQL)
WorkerMark ==
    /\ worker # NoCall
    /\ worker.at = "mark"
    /\ LET m == worker.message IN
        message' = IF m.message_id # NULL
                   THEN [message EXCEPT ![m.message_id] =
                            [@ EXCEPT !.destination = m.destination,
                                      !.mode_id = m.mode_id,
                                      !.template_id = m.template_id,
                                      !.subject = m.subject,
                                      !.body = m.body,
                                      !.active = FALSE,
                                      !.sent = clock]]
                   ELSE message
    /\ worker' = [worker EXCEPT !.at = "returned"]
    /\ UNCHANGED <<plan, incident, clock, pc, escalations, rows, inflight, tstart, script>>
    /\ UNCHANGED aggVars
    /\ UNCHANGED <<call, target_contact, templates, sender_slaves>>

NextSend ==
    \/ SendQueuePut
    \/ WorkerGet
    \/ WorkerSetTargetContact
    \/ WorkerRender
    \/ WorkerSend
    \/ WorkerFallback
    \/ WorkerMark

SpecSend == InitSend /\ [][NextSend]_vars

\* ================================================================ claims

\* message rows of incident i, plan_notification p
RowsOf(i, p) ==
    {m \in MessageIds : message[m].incident_id = i /\ message[m].plan_notification_id = p}

\* ---------------------------------------------------------------------
\* C1: in every reachable state every incident has 0 <= current_step <=
\* step_count of its plan, and no step of escalate() (or of anything else)
\* writes a current_step smaller than the one the incident had before.
C1_StepInRange ==
    \A i \in IncidentIds :
        incident[i].current_step >= 0 /\ incident[i].current_step <= plan.step_count

C1_StepNeverDecreases ==
    [][\A i \in IncidentIds : incident'[i].current_step >= incident[i].current_step]_vars

C1_CurrentStep == []C1_StepInRange /\ C1_StepNeverDecreases

\* an incident was advanced to the second and last step of its plan, and the
\* advance wrote its messages
C1_Witness ==
    \E i \in IncidentIds :
        /\ plan.step_count = 2
        /\ incident[i].current_step = 2
        /\ \E p \in StepsOf(2) : RowsOf(i, p) # {}

\* ---------------------------------------------------------------------
\* C2: an incident's active flag goes from true to false once and never
\* back, and once the incident is inactive no message row is inserted for
\* it, also when it is claimed between the reads of escalate() and its
\* create_messages calls.
C2_NoMessageOnceInactive ==
    [][\A i \in IncidentIds :
          ~incident[i].active =>
              /\ ~incident'[i].active
              /\ \A m \in DOMAIN message' :
                    message'[m].incident_id = i => m \in MessageIds]_vars

C4_DeactivateOnlyWhenAllExhausted ==
    [][(pc = "deactivate" /\ pc' = "poll") =>
          \A i \in IncidentIds :
              (incident[i].active /\ ~incident'[i].active) =>
                  \A p \in StepsOf(plan.step_count) : Exhausted(i, p)]_vars

\* ---------------------------------------------------------------------
\* C5: scenario 1 (step 1: repeat 0, wait 30; step 2: repeat 1, wait 10;
\* every message sent in the tick that created it; ticks at 0, 35, 46, 57):
\* after the tick at 0 one step-1 message and current_step = 1; after 35
\* current_step = 2 and one step-2 message; after 46 a second step-2
\* message; after 57 the incident is inactive; no other message.
Scenario1Messages(n) ==
    SubSeq(<< <<1, 0>>, <<2, 35>>, <<2, 46>> >>, 1, IF n > 3 THEN 3 ELSE n)

C5_Scenario1 ==
    (plan = Scenario1Plan /\ script # NULL /\ script >= 1 /\ pc = "idle") =>
        /\ incident[1].current_step = (IF script = 1 THEN 1 ELSE 2)
        /\ incident[1].active = (script < 4)
        /\ [m \in MessageIds |->
              <<message[m].plan_notification_id, message[m].created>>]
             = Scenario1Messages(script)

\* ---------------------------------------------------------------------
\* history helpers of the aggregation claims
\* the step classifies a message of key K
Classified(K) == Len(hist') = Len(hist) + 1 /\ hist'[Len(hist')].key = K

\* classifications of key K made outside aggregation mode
RatePath(K) == {k \in DOMAIN hist : hist[k].key = K /\ hist[k].how # "buffered"}

\* ---------------------------------------------------------------------
\* C6: once a key K is in aggregation mode, aggregation[K] is removed by
\* nothing but a classification of K at which now - aggregation[K] >
\* aggregation_reset, and every classification of K before that one buffers
\* the message (queues[K], messages) and puts nothing on the send queue.
C6_AggregationMode ==
    [][\A K \in Keys : aggregation[K] # NULL =>
        /\ aggregation'[K] = NULL =>
              Classified(K) /\ fnow - aggregation[K] > plan.aggregation_reset
        /\ (Classified(K) /\ fnow - aggregation[K] <= plan.aggregation_reset) =>
              /\ send_queue' = send_queue
              /\ queues'[K] = queues[K] \cup {hist'[Len(hist')].id}
              /\ hist'[Len(hist')].id \in messages'
              /\ aggregation'[K] = fnow]_vars

\* a message was buffered under a key that was in aggregation mode
C6_Witness ==
    \E k \in DOMAIN hist :
        /\ hist[k].how = "buffered"
        /\ hist[k].id \in messages
        /\ \E j \in 1..(k - 1) : hist[j].how = "enter" /\ hist[j].key = hist[k].key

\* ---------------------------------------------------------------------
\* C7 as written: at any time sum(windows[K]) is the number of messages
\* classified under K within the last threshold_window seconds.
C7_WindowSumAnyTime ==
    \A K \in Keys :
        WindowSum(windows[K]) =
            Cardinality({k \in DOMAIN hist :
                            hist[k].key = K /\ clock - hist[k].now <= plan.threshold_window})

\* C7 amended: sum(windows[K]) is the number of messages classified under K
\* outside aggregation mode whose timestamp lies no more than
\* threshold_window before the latest such classification (buckets are
\* pruned only there, and buffered messages are not counted).
C7_WindowSumAtRateCheck ==
    \A K \in Keys :
        RatePath(K) # {} =>
            LET last == hist[Max(RatePath(K))].now IN
            WindowSum(windows[K]) =
                Cardinality({k \in RatePath(K) : last - hist[k].now <= plan.threshold_window})

\* two classifications share a window while a third message was buffered
\* uncounted and the clock has left the window
C7_Witness ==
    \E K \in Keys :
        /\ WindowSum(windows[K]) = 2
        /\ \E k \in DOMAIN hist : hist[k].key = K /\ hist[k].how = "buffered"
        /\ \A k \in DOMAIN hist : clock - hist[k].now > plan.threshold_window

\* ---------------------------------------------------------------------
\* scenario 2 up to the aggregate() call: five classifications at the times
\* of the scenario, the fourth and the fifth message buffered and active
Scenario2Buffered == {hist[4].id, hist[5].id}

Scenario2Ready ==
    /\ plan = Scenario2Plan
    /\ Len(hist) = 5
    /\ \A k \in DOMAIN hist : hist[k].now = Scenario2Times[k] /\ hist[k].key = "user_a"
    /\ hist[4].id # hist[5].id
    /\ queues["user_a"] = Scenario2Buffered
    /\ \A id \in Scenario2Buffered : message[id].active

\* aggregate(now) considers the key user_a
Scenario2KeyStep ==
    /\ agg.state = "loop"
    /\ "user_a" \in agg.keys
    /\ "user_a" \notin agg'.keys

\* C8 as written: in scenario 2 the call aggregate(T0 + 30) flushes K, with
\* the two buffered ids in the batch.
C8_FlushAt30 ==
    [][(Scenario2Ready /\ Scenario2KeyStep /\ agg.now = 1030) =>
            agg'.state = "query" /\ agg'.active = Scenario2Buffered]_vars

\* C8 amended: in scenario 2 aggregate(T0 + 30) does not flush K, because
\* sent[K] = T0 + 3 and 27 < aggregation_window = 30; a call aggregate(now)
\* with now >= T0 + 33 flushes K: one entry on the send queue with a batch
\* id and aggregated_ids = the two buffered ids, queues[K] removed,
\* sent[K] = now.
C8_FlushAt33 ==
    [][/\ (Scenario2Ready /\ Scenario2KeyStep /\ agg.now = 1030) =>
            /\ agg'.state = "loop"
            /\ queues' = queues /\ sent' = sent /\ send_queue' = send_queue
       /\ (Scenario2Ready /\ Scenario2KeyStep /\ agg.now >= 1033) =>
            agg'.state = "query" /\ agg'.active = Scenario2Buffered
       /\ (Scenario2Ready /\ agg.state = "query" /\ agg'.state = "loop"
              /\ agg.active = Scenario2Buffered) =>
            /\ \E m \in Scenario2Buffered :
                 send_queue' = Append(send_queue, Entry(m, Scenario2Buffered, TRUE))
            /\ queues'["user_a"] = {}
            /\ sent'["user_a"] = agg.now
            /\ messages' \cap Scenario2Buffered = {}]_vars

\* the batch of scenario 2 is on the send queue after aggregate(T0 + 33)
C8_Witness ==
    /\ plan = Scenario2Plan
    /\ Len(hist) = 5
    /\ sent["user_a"] = 1033
    /\ \E k \in DOMAIN send_queue :
        /\ send_queue[k].batch_id
        /\ send_queue[k].aggregated_ids = Scenario2Buffered
        /\ Cardinality(Scenario2Buffered) = 2

\* ---------------------------------------------------------------------
\* C9: a message classified under a key K that is not in aggregation mode
\* goes to the send queue when it is at most the threshold_count-th message
\* of K within threshold_window, and otherwise K enters aggregation mode
\* with aggregation[K] = sent[K] = now and the message buffered; with
\* threshold_count = 3 the first three messages of one window are sent and
\* the fourth is the first one buffered.
C9_Step ==
    \A K \in Keys :
        (Classified(K)
            /\ ~(aggregation[K] # NULL /\ fnow - aggregation[K] <= plan.aggregation_reset)) =>
        LET n == 1 + Cardinality({k \in RatePath(K) :
                                    fnow - hist[k].now <= plan.threshold_window})
            id == hist'[Len(hist')].id
        IN  IF n <= plan.threshold_count
            THEN /\ send_queue' = Append(send_queue, Entry(id, {}, FALSE))
                 /\ aggregation'[K] = NULL
                 /\ queues'[K] = queues[K]
            ELSE /\ send_queue' = send_queue
                 /\ aggregation'[K] = fnow
                 /\ sent'[K] = fnow
                 /\ id \in queues'[K]
                 /\ id \in messages'

C9_FirstFour ==
    \A K \in Keys :
        LET h == SelectSeq(hist, LAMBDA e : e.key = K) IN
        \A k \in DOMAIN h :
            (plan.threshold_count = 3 /\ k <= 4
                /\ h[k].now - h[1].now <= plan.threshold_window) =>
            h[k].how = IF k <= 3 THEN "sent" ELSE "enter"

C9_SendOrEnter == []C9_FirstFour /\ [][C9_Step]_vars

\* with threshold_count = 3, a fourth message of the window entered
\* aggregation mode after three were sent
C9_Witness ==
    /\ plan.threshold_count = 3
    /\ Len(hist) >= 4
    /\ hist[4].how = "enter"
    /\ hist[4].now - hist[1].now <= plan.threshold_window
    /\ aggregation[hist[4].key] # NULL

\* ---------------------------------------------------------------------
\* C10: when every id buffered in queues[K] is inactive in the database
\* (the incident was claimed) at the time aggregate(now) flushes K, the
\* flush puts nothing on the send queue, removes those ids from messages
\* and removes queues[K].
C10_FlushAllInactive ==
    [][/\ (agg.state = "loop" /\ agg'.state = "query"
              /\ \A id \in queues[agg'.key] : ~message[id].active) =>
            agg'.active = {}
       /\ (agg.state = "query" /\ agg'.state = "loop" /\ agg.active = {}) =>
            /\ send_queue' = send_queue
            /\ messages' \cap agg.ids = {}
            /\ queues'[agg.key] = {}]_vars

\* a flush dropped two buffered messages of a claimed incident and sent none
C10_Witness ==
    /\ agg.state = "loop"
    /\ agg.log = <<2, 0>>
    /\ \E i \in IncidentIds : incident[i].owner
    /\ queues[agg.key] = {}

\* ---------------------------------------------------------------------
\* the step is the write half of escalate()
EscalateWrites == pc = "escalate" /\ pc' = "deactivate"

C19_RepeatOnlyCurrentStep ==
    [][\A m \in DOMAIN message' \ MessageIds :
        plan.pns[message'[m].plan_notification_id].step
            >= incident[message'[m].incident_id].current_step]_vars

\* ---------------------------------------------------------------------
\* C20: when escalate() handles a new incident (current_step = 0) and
\* inserts no message row for it, the incident is at current_step = 0
\* after the call.
C20_ResetWhenNoRow ==
    [][\A i \in IncidentIds :
        (EscalateWrites /\ i \in DOMAIN escalations /\ incident[i].current_step = 0
            /\ \A m \in DOMAIN message' \ MessageIds : message'[m].incident_id # i) =>
        incident'[i].current_step = 0]_vars

\* ---------------------------------------------------------------------
\* the classification at which fetch_and_prepare_message() first took the
\* message from the intake queue
FirstIntake(id) == Min({k \in DOMAIN hist : hist[k].id = id})

\* C16: for two messages m1 and m2 of one key K where m1 is taken from the
\* intake queue before m2, the vendor send of m1 starts before the vendor
\* send of m2: when a worker begins to send a payload, no message of its
\* key that was taken from the intake queue before one of the payload's
\* messages is still waiting for its first send.
C16_SendInIntakeOrder ==
    [][\A m2 \in started' \ started : \A m1 \in MessageIds :
          (/\ \E k \in DOMAIN hist : hist[k].id = m1
           /\ \E k \in DOMAIN hist : hist[k].id = m2
           /\ KeyOf(m1) = KeyOf(m2)
           /\ FirstIntake(m1) < FirstIntake(m2)) =>
          m1 \in started']_vars

\* ---------------------------------------------------------------------
\* C15: under fair master ticks, advancing time and vendor sends that
\* always succeed, every incident created with current_step = 0 and
\* active = true eventually becomes active = false: no incident stays
\* active for ever at a step for which no message will be created.
C15_EventuallyInactive ==
    (incident # <<>>) ~> (incident # <<>> /\ ~incident[1].active)

\* ---------------------------------------------------------------------
\* C12: when targets_for_role returns no name, create_messages inserts
\* exactly one message addressed to the plan's creator with priority low
\* and a body that starts with the notice, and records one TARGET_CHANGE
\* entry for it; when the creator cannot be found or the low priority is
\* missing it inserts no message and returns False.
C12_CreatorFallback ==
    (call.fn = "create_messages" /\ call.state = "returned" /\ call.names = {}) =>
        LET r == call.result
            found == call.creator # NoName /\ call.creator \in call.known
        IN  IF found /\ call.low
            THEN /\ r.ret
                 /\ Len(r.rows) = 1
                 /\ r.rows[1] = [target |-> call.creator, priority |-> "low",
                                 body |-> <<CreatorNotice>>]
                 /\ r.audit = <<[change_type |-> "TARGET_CHANGE", new |-> call.creator]>>
            ELSE r.rows = <<>> /\ r.audit = <<>> /\ ~r.ret

\* ---------------------------------------------------------------------
\* the request needs authentication, and the client signed what it sends
\* with the key of the application
SignedAsSent ==
    /\ call.fn = "process_resource" /\ call.state = "returned"
    /\ ~(call.req.allow_read_only /\ call.req.method = "GET")
    /\ call.client_key = ApiKey
    /\ call.signed_body = call.req.body

\* C14: for a resource that requires authentication, a request whose
\* digest was computed for window w (same key, method, path and body) is
\* accepted when the server's window is w or w + 1 and rejected when it is
\* w + 2 or later; a digest of window t - 1 is accepted for less than 5
\* seconds after window t begins.
C14_TwoWindows ==
    SignedAsSent =>
        LET w == call.signed
            server == WindowOf(call.now)
        IN  /\ server \in {w, w + 1} => call.result = "authenticated"
            /\ server >= w + 2 => call.result = "HTTPUnauthorized"
            /\ (call.result = "authenticated" /\ server > w) =>
                    call.now - 5 * (w + 1) \in 0..4

\* a digest of the previous window was accepted in the last second of the
\* server's window
C14_Witness ==
    /\ SignedAsSent
    /\ call.result = "authenticated"
    /\ WindowOf(call.now) = call.signed + 1
    /\ call.now = 5 * (call.signed + 1) + 4
\* ---------------------------------------------------------------------
\* C11: whenever fetch_and_send_message marks a message as sent after a
\* successful send, first attempt or retry, the updated row has active = 0,
\* sent not NULL, destination not NULL and mode_id not NULL, also when the
\* retry follows a set_target_fallback_mode that failed and set mode,
\* mode_id and destination of the message to None.
C11_SentRowHasDestination ==
    [][\A id \in MessageIds :
          (worker # NoCall /\ worker.at = "mark" /\ worker.message.message_id = id) =>
              /\ ~message'[id].active
              /\ message'[id].sent # NULL
              /\ message'[id].destination # None
              /\ message'[id].mode_id # NULL]_vars

\* ---------------------------------------------------------------------
\* C13: for every message taken from the send queue, incident-driven or
\* out-of-band with a mode set by the API, if the target has no contact
\* for the selected mode then set_target_contact tries the fallback mode
\* and, when the target has an email contact, returns success with
\* mode = email and that destination; the worker does not crash.
C13_FallbackToEmail ==
    [][(/\ worker # NoCall
        /\ worker.at = "set_target_contact"
        /\ worker'.at # "set_target_contact"
        /\ (IF worker.message.mode # Absent THEN worker.message.mode
            ELSE PriorityMode[worker.message.priority]) \notin target_contact
        /\ target_fallback_mode \in target_contact) =>
            /\ worker'.at = "render"
            /\ worker'.message.mode = target_fallback_mode
            /\ worker'.message.destination
                  = Destination(worker.message.target, target_fallback_mode)]_vars

\* ---------------------------------------------------------------------
\* C17: for every message with a template name whose contact was
\* resolved, any failure of render() (template missing, no entry for the
\* application, none for the mode, subject or body raising) leaves the
\* message with the synthetic subject, the synthetic body and template_id
\* null, and fetch_and_send_message still calls distributed_send_message.
C17_RenderFailureStillSends ==
    [][(/\ worker # NoCall
        /\ worker.at = "render"
        /\ worker'.at # "render"
        /\ worker.message.template # None
        /\ RenderError(worker.message) # "") =>
            /\ worker'.at = "send"
            /\ worker'.message.subject = "Iris failed to render your message"
            /\ worker'.message.body = <<"Failed rendering message.">>
            /\ worker'.message.template_id = NULL]_vars

\* ---------------------------------------------------------------------
\* C21: if escalate() fails with a database error after create_messages
\* committed the messages of a step and before the update of current_step
\* is committed, the retry of the next pass does not create the messages
\* of that step a second time: when escalate() writes step s as the new
\* current_step of an incident and inserts rows of step s, the incident
\* had no row of step s before.
C21_StepMessagesOnce ==
    [][\A i \in IncidentIds :
          (EscalateWrites /\ incident'[i].current_step # incident[i].current_step) =>
              \A n \in DOMAIN message' \ DOMAIN message :
                  (/\ message'[n].incident_id = i
                   /\ plan.pns[message'[n].plan_notification_id].step
                          = incident'[i].current_step) =>
                      \A m \in MessageIds :
                          message[m].incident_id = i =>
                              plan.pns[message[m].plan_notification_id].step
                                  # incident'[i].current_step]_vars

\* ---------------------------------------------------------------------
\* the buffered ids of a key whose rows are active
StillActive(key) == {id \in queues[key] : message[id].active}

\* aggregate() ends the flush of a key
Flushes == agg.state = "query" /\ agg'.state = "loop"

\* C22: when aggregate(now) flushes key K: with one buffered id of K
\* still active the message is put on the send queue without batch_id and
\* aggregated_ids; with two or more, one entry is put on the send queue
\* whose aggregated_ids are exactly the buffered ids of K that are still
\* active, with a batch_id; in both cases every id of queues[K] is removed
\* from messages, queues[K] is deleted and sent[K] = now.
C22_FlushEffects ==
    [][Flushes =>
          LET K == agg.key
              active == StillActive(K)
              l == Cardinality(active)
          IN  /\ l = 1 =>
                    \E id \in active :
                        send_queue' = Append(send_queue, Entry(id, {}, FALSE))
              /\ l >= 2 =>
                    /\ Len(send_queue') = Len(send_queue) + 1
                    /\ SubSeq(send_queue', 1, Len(send_queue)) = send_queue
                    /\ send_queue'[Len(send_queue')].batch_id
                    /\ send_queue'[Len(send_queue')].aggregated_ids = active
                    /\ send_queue'[Len(send_queue')].message_id \in active
              /\ messages' \cap queues[K] = {}
              /\ queues'[K] = {}
              /\ sent'[K] = tstart]_vars

\* ---------------------------------------------------------------------
\* poll() returns
Polls == pc = "poll" /\ pc' = "aggregate"

\* C23: poll() puts on the intake queue no message whose id is a key of
\* `messages` at the time of the poll, and it puts every other row with
\* active = 1 on the intake queue, once.
C23_PollExcludesBuffered ==
    [][Polls =>
          LET n == Len(message_queue)
              put == {message_queue'[k] : k \in (n + 1)..Len(message_queue')}
          IN  /\ SubSeq(message_queue', 1, n) = message_queue
              /\ put \cap messages = {}
              /\ \A m \in MessageIds :
                    (message[m].active /\ m \notin messages) => m \in put
              /\ \A m \in put : message[m].active
              /\ Len(message_queue') = n + Cardinality(put)]_vars

\* a poll put an active row on the intake queue and left out an active
\* row that is buffered
C23_Witness ==
    /\ pc = "aggregate"
    /\ agg.state = "idle"
    /\ message_queue # <<>>
    /\ message_queue[Len(message_queue)] \notin messages
    /\ \E m \in messages :
        /\ message[m].active
        /\ \A k \in DOMAIN message_queue : message_queue[k] # m

\* ---------------------------------------------------------------------
\* C24: every mutation of the shared aggregation maps is atomic with
\* respect to the other greenlets: between aggregate() reading queues[K]
\* for a flush and aggregate() deleting queues[K] and setting sent[K],
\* while it waits for the database, no step of the intake task changes
\* the maps.
C24_FlushAtomic ==
    [][(agg.state = "query" /\ agg'.state = "query") =>
          <<windows, aggregation, queues, sent, messages>>'
              = <<windows, aggregation, queues, sent, messages>>]_vars

\* ---------------------------------------------------------------------
\* C25: the timestamp `now` fetch_and_prepare_message uses to classify a
\* message is the time at which the message is taken from the intake
\* queue; it is never earlier than the time the message was put on the
\* intake queue (and so never earlier than the time its row was created),
\* also when the intake task was blocked on an empty queue.
C25_NowNotBeforePut ==
    \A k \in DOMAIN hist : hist[k].now >= message[hist[k].id].created

\* ---------------------------------------------------------------------
\* aggregate() decides to flush a key: `now - sent.get(key, 0) >=
\* aggregation_window` held
DecidesFlush == agg.state = "loop" /\ agg'.state = "query"

\* C26: for every key the values successive flushes of aggregate() write
\* to sent[K] are strictly increasing, and a flush never writes a value
\* smaller than the sent[K] it read, for every interleaving with the
\* intake task entering or leaving aggregation.
C26_FlushesIncrease ==
    [][/\ DecidesFlush => sent[agg'.key] <= agg.now
       /\ Flushes =>
            /\ sent'[agg.key] = agg.now
            /\ \A k \in DOMAIN agg.flushed : agg.flushed[k] < agg.now]_vars

\* the second flush of the key, with the intake task having buffered a
\* message between the two
C26_Witness ==
    /\ Len(agg.flushed) = 2
    /\ agg.flushed[1] < agg.flushed[2]
    /\ \E k \in DOMAIN hist : hist[k].how = "buffered"

\* ---------------------------------------------------------------------
\* distributed_send_message() raised: in the first call for a message of
\* mode email, or in the retry of the fallback
SendFailed ==
    /\ worker # NoCall
    /\ worker'.sends = worker.sends + 1
    /\ worker'.outcome = "raise"
    /\ worker.message.mode = "email" \/ worker'.sends = 2

\* C27: when the send of an email message fails, or the retry of the
\* fallback fails, fetch_and_send_message adds one to task_failure and
\* does not mark the message as sent: the call returns and the row still
\* has active = 1 and sent NULL, so that a later poll() selects it again.
C27_FailureLeavesRowUnsent ==
    [][SendFailed =>
          /\ worker'.task_failure = worker.task_failure + 1
          /\ worker'.at = "returned"
          /\ worker.message.message_id # NULL =>
                /\ message'[worker.message.message_id].active
                /\ message'[worker.message.message_id].sent = NULL
                /\ worker.message.message_id \in UnsentMessages({})']_vars

\* the retry of the fallback failed for a message with a row
C27_Witness ==
    /\ worker # NoCall
    /\ worker.at = "returned"
    /\ worker.sends = 2
    /\ worker.outcome = "raise"
    /\ worker.task_failure = 1
    /\ worker.message.message_id # NULL
    /\ message[worker.message.message_id].active

\* ---------------------------------------------------------------------
\* C28: for one message taken from the send queue,
\* distributed_send_message is called at most twice; the second call is
\* made only if the first raised and the mode of the message was not
\* email, after the contact was resolved again with target_fallback_mode
\* and the message rendered again; a MODE_CHANGE entry (old mode ->
\* fallback mode) is written to the audit log exactly when the fallback
\* contact was found.
C28_OneRetry ==
    [][(worker # NoCall /\ worker' # worker) =>
          LET found == target_fallback_mode \in target_contact
              f == SetTargetFallbackMode(worker.message).message
          IN  /\ worker'.sends <= 2
              /\ worker'.sends \in {worker.sends, worker.sends + 1}
              /\ worker'.sends = 2 /\ worker.sends = 1 =>
                    /\ worker.outcome = "raise"
                    /\ worker.message.mode # "email"
                    /\ worker'.message.mode = (IF found THEN target_fallback_mode ELSE None)
                    /\ worker'.message.destination
                          = (IF found THEN Destination(worker.message.target,
                                                       target_fallback_mode)
                             ELSE None)
                    /\ worker'.message = Render(f).message
              /\ worker.at = "fallback" =>
                    worker'.audit = IF found
                                    THEN Append(worker.audit,
                                                <<worker.message.mode, target_fallback_mode>>)
                                    ELSE worker.audit
              /\ worker.at \notin {"fallback", "set_target_contact"} =>
                    worker'.audit = worker.audit]_vars

\* the sms send failed, the email contact was found and the retry succeeded
C28_Witness ==
    /\ worker # NoCall
    /\ worker.at = "mark"
    /\ worker.sends = 2
    /\ worker.audit = << <<"sms", "email">> >>
    /\ worker.message.mode = "email"

\* ---------------------------------------------------------------------
\* the mode set_target_contact looks a contact up for
SelectedMode(m) == IF m.mode # Absent THEN m.mode ELSE PriorityMode[m.priority]

\* C29: if neither the selected mode nor the fallback mode yields a
\* contact for the target, the message ends with mode, destination and
\* mode_id null and fetch_and_send_message returns without a send; a
\* message with a message_id has its row set to active = 0 and one
\* MODE_CHANGE entry ending in 'invalid' in the audit log, a message
\* without message_id causes no write.
C29_NoContact ==
    [][(/\ worker # NoCall
        /\ worker.at = "set_target_contact"
        /\ worker'.at # "set_target_contact"
        /\ SelectedMode(worker.message) \notin target_contact
        /\ target_fallback_mode \notin target_contact) =>
            LET id == worker.message.message_id IN
            /\ worker'.at = "returned"
            /\ worker'.sends = 0
            /\ worker'.message.mode = None
            /\ worker'.message.destination = None
            /\ worker'.message.mode_id = NULL
            /\ id # NULL =>
                  /\ ~message'[id].active
                  /\ worker'.audit = << <<target_fallback_mode, "invalid">> >>
            /\ id = NULL =>
                  /\ message' = message
                  /\ worker'.audit = <<>>]_vars

\* ---------------------------------------------------------------------
\* C30: for an incident-driven message with target T, application A and
\* priority P, set_target_contact_by_priority chooses the mode of
\* target_application_mode[T, A, P] if that row exists, else that of
\* target_mode[T, P] if that row exists, else the default mode of P; the
\* destination is T's contact for exactly that mode, and when T has no
\* contact for it the call raises and sets no mode of lower preference.
C30_ModePreference ==
    (call.fn = "set_target_contact_by_priority" /\ call.state = "returned") =>
        LET chosen(mode) ==
                IF mode \in call.contacts
                THEN /\ ~call.result.raised
                     /\ call.result.message.mode = mode
                     /\ call.result.message.mode_id = ModeId[mode]
                     /\ call.result.message.destination
                           = Destination(call.message.target, mode)
                ELSE /\ call.result.raised
                     /\ call.result.message = call.message
        IN  /\ call.application_mode # None => chosen(call.application_mode)
            /\ (call.application_mode = None /\ call.target_mode # None) =>
                  chosen(call.target_mode)
            /\ (call.application_mode = None /\ call.target_mode = None) =>
                  chosen(PriorityMode[call.message.priority])

\* the application's setting is sms, the target's own setting is email and
\* the target has an email contact only: the call raises
C30_Witness ==
    /\ call.fn = "set_target_contact_by_priority"
    /\ call.state = "returned"
    /\ call.application_mode = "sms"
    /\ call.target_mode = "email"
    /\ call.contacts = {"email"}
    /\ call.result.raised

\* ---------------------------------------------------------------------
\* C31: in distributed_send_message with slaves configured at most
\* num_slaves slaves are tried for one call; as soon as one slave accepts
\* the message the call returns True without a local vendor send; the
\* local vendor send is made exactly once and only after every slave
\* tried has failed (or when no slave is configured), and the call raises
\* when that local send returns no latency.
C31_SlavesThenLocal ==
    (call.fn = "distributed_send_message" /\ call.state = "returned") =>
        LET r == call.result
            tried == 1..r.attempts
            allowed == 1..Min({call.num_slaves, Len(call.replies)})
        IN  /\ r.attempts <= call.num_slaves
            /\ tried \subseteq allowed
            /\ \A i \in tried : call.replies[i] => i = r.attempts
            /\ (\E i \in tried : call.replies[i]) =>
                  r.ret = "True" /\ r.local = 0
            /\ (\A i \in tried : ~call.replies[i]) =>
                  /\ r.local = 1
                  /\ tried = allowed
                  /\ call.runtime = None => r.ret = "raise"
                  /\ (call.runtime = "latency" /\ call.mode # None) => r.ret = "True"

\* two slaves may be tried and both fail, a third address is configured
\* and would accept; the local send returns no latency
C31_Witness ==
    /\ call.fn = "distributed_send_message"
    /\ call.state = "returned"
    /\ call.num_slaves = 2
    /\ call.replies = <<FALSE, FALSE, TRUE>>
    /\ call.runtime = None
    /\ call.result = [ret |-> "raise", attempts |-> 2, local |-> 1]

\* ---------------------------------------------------------------------
\* an iteration of main()'s loop ends: the try block is over
IterationEnds == call.at # "respawn" /\ call'.at = "respawn"

\* the passes of one iteration, in the order of the source
FourPasses == <<"escalate", "deactivate", "poll", "aggregate">>

\* C32 as stated: every tick runs escalate, deactivate, poll and aggregate,
\* in this order, each after the one before returned, and a new tick
\* starts only after the four passes of the previous one ended.
C32_FourPassesEveryTick ==
    [][IterationEnds => call.ran = FourPasses]_vars

\* C32, amended: every tick runs a prefix of escalate, deactivate, poll,
\* aggregate, in this order and one at a time; a pass that raises ends the
\* tick and the passes after it are not run in that tick; a new tick
\* starts only after the previous one reached the end of its try block
\* and the check of the background tasks.
C32_PassesInOrder ==
    [][/\ call'.ran # <<>> =>
            /\ Len(call'.ran) <= Len(FourPasses)
            /\ call'.ran = SubSeq(FourPasses, 1, Len(call'.ran))
       /\ call'.at \in {"escalate", "deactivate", "poll", "aggregate"} =>
            call'.at = call'.ran[Len(call'.ran)]
       /\ (call'.ran # call.ran /\ Len(call'.ran) = 1) => call.at = "sleep"
       /\ call.at = "respawn" => call'.at \in {"respawn", "sleep"}]_vars

\* a tick whose poll() raised has ended without aggregate()
C32_Witness ==
    /\ call.fn = "main"
    /\ call.at = "respawn"
    /\ call.ran = <<"escalate", "deactivate", "poll">>

\* ---------------------------------------------------------------------
\* C33: if the send task or a worker greenlet has died from an exception
\* nobody caught, then at the end of the next iteration of main()'s loop
\* a replacement has been spawned: when main() goes to sleep the send task
\* and all workers are alive, also when a pass of that iteration raised;
\* every iteration reaches the check of the background tasks.
C33_RespawnedEachIteration ==
    [][/\ (call.at # "sleep" /\ call'.at = "sleep") =>
            /\ call.at = "respawn"
            /\ \A t \in DOMAIN call'.tasks : call'.tasks[t]
       /\ (call.at \in {"escalate", "deactivate", "poll", "aggregate"}
              /\ call'.at \notin {"escalate", "deactivate", "poll", "aggregate"}) =>
            call'.at = "respawn"]_vars

\* the send task and a worker are dead and a pass raised: main() is about
\* to check the background tasks
C33_Witness ==
    /\ call.fn = "main"
    /\ call.at = "respawn"
    /\ ~call.tasks[0]
    /\ ~call.tasks[1]
    /\ call.ran = <<"escalate">>

\* ---------------------------------------------------------------------
\* C34: for every message that was sent, the subject mark_message_as_sent()
\* writes to the row has at most 255 characters, and is '' rather than
\* NULL when the message has no subject, whatever the rendered length.
C34_SubjectWritten ==
    (call.fn = "mark_message_as_sent" /\ call.state = "returned") =>
        /\ call.result.params # NULL
        /\ call.result.params <= SubjectMax
        /\ (call.subject = NULL => call.result.params = 0)

\* ---------------------------------------------------------------------
\* C40: render() is idempotent on a message with a template: rendering a
\* rendered message again for the same mode gives the same subject and
\* body; and after the handler of a failed send rendered the message again
\* for the fallback mode, its body is the body stored in the row followed
\* by the rendering of the template of the fallback mode only.
C40_RenderIdempotent ==
    [][(/\ worker # NoCall
        /\ worker.message.template # None
        /\ worker.message.message_id # NULL) =>
          /\ (worker.at = "send" /\ RenderError(worker.message) = "") =>
                LET again == Render(worker.message).message IN
                /\ again.subject = worker.message.subject
                /\ again.body = worker.message.body
          /\ (/\ worker.at = "fallback"
              /\ worker'.at # "fallback"
              /\ RenderError(SetTargetFallbackMode(worker.message).message) = "") =>
                worker'.message.body
                    = message[worker.message.message_id].body
                        \o <<worker'.message.mode>>]_vars

\* ---------------------------------------------------------------------
\* C39: for an incident whose plan has tracking settings, escalate() sends
\* the tracking message at most once over the life of the incident, also
\* when the advance to step 1 creates no message and current_step is set
\* back to 0.
C39_TrackingOnce ==
    call.fn = "escalate" =>
        \A k1, k2 \in DOMAIN call.tracking :
            call.tracking[k1] = call.tracking[k2] => k1 = k2

\* ---------------------------------------------------------------------
\* C38: one call of escalate() changes the current_step of an incident by
\* at most +1 and writes it at most once per incident, also when several
\* plan_notifications of the incident's step are exhausted in the same
\* tick: `escalations` holds one step per incident, the step after the
\* current one, and the step written is that step (or 0).
C38_OneStepPerCall ==
    [][/\ \A i \in IncidentIds :
            /\ incident'[i].current_step - incident[i].current_step \in {0, 1}
            /\ incident'[i].current_step # incident[i].current_step => EscalateWrites
       /\ pc = "escalate" =>
            \A i \in DOMAIN escalations :
                /\ escalations[i] = incident[i].current_step + 1
                /\ EscalateWrites /\ incident'[i].active =>
                      incident'[i].current_step \in {escalations[i], 0}]_vars

\* both notifications of step 1 were exhausted in the tick that moved the
\* incident to step 2 and wrote the message of step 2
C38_Witness ==
    /\ pc = "deactivate"
    /\ \E i \in IncidentIds :
        /\ incident[i].current_step = 2
        /\ Cardinality({p \in StepsOf(1) :
                /\ RowsOf(i, p) # {}
                /\ MaxCount(i, p) = plan.pns[p].repeat + 1
                /\ \A m \in RowsOf(i, p) : message[m].created < clock}) = 2
        /\ \E p \in StepsOf(2) : \E m \in RowsOf(i, p) : message[m].created = clock

\* ---------------------------------------------------------------------
\* C35: in every state the keys of `messages` are the union of the id sets
\* of `queues`: every buffered id is in the queue of some key and every id
\* of a queue has a payload in `messages`.
C35_MessagesAreQueued ==
    messages = UNION {queues[k] : k \in Keys}

\* ---------------------------------------------------------------------
\* C37: a message id is never more than once in the pipeline of the intake
\* queue and the send queue (a worker sends what it takes from the send
\* queue): poll() does not enqueue a message that an earlier poll()
\* enqueued and that is still waiting.
C37_NoDuplicateInPipeline ==
    LET waiting == [k \in DOMAIN message_queue |-> {message_queue[k]}]
        sending == [k \in DOMAIN send_queue |->
                       IF send_queue[k].batch_id THEN send_queue[k].aggregated_ids
                       ELSE {send_queue[k].message_id}]
        pipeline == waiting \o sending
    IN  \A j, k \in DOMAIN pipeline :
            j # k => pipeline[j] \cap pipeline[k] = {}

\* ---------------------------------------------------------------------
\* C36: with passes that keep coming, every message that
\* fetch_and_prepare_message() buffered in `messages` is eventually put on
\* the send queue by a flush or removed because its row is not active any
\* more: no id stays in `messages` forever.
C36_BufferedEventuallyLeaves ==
    \A id \in 1..MaxRows : (id \in messages) ~> (id \notin messages)
====
